---- MODULE Spec2Model ----
(***************************************************************************)
(* Contract resolution engine of tg_arbitrage: the ContractResolver with   *)
(* its durable cache (ContractCache over the contract_addresses,           *)
(* api_call_logs and failed_contract_lookups tables) and its provider      *)
(* fallback chain CoinGecko -> 1inch -> DexScreener.                        *)
(*                                                                         *)
(* Resolutions are asyncio tasks of one process sharing one resolver and   *)
(* one database session.  A task runs without interruption between two     *)
(* awaits, so every action below is the code from one suspension point to  *)
(* the next.  Time is a monotone clock in ticks; the cache TTL is counted  *)
(* in the same ticks.                                                      *)
(***************************************************************************)
EXTENDS Integers, Sequences, FiniteSets, Bags, TLC

\* ------------------------------------------------------------------ bounds
\* resolutions started in one run (caps metrics.total_requests)
MaxRequests == 2
\* last tick of the clock
MaxTime == 1
\* CONTRACT_CACHE_TTL, in ticks
cache_ttl == 1
\* failures of the database (a query or a commit that raises) in one run
MaxDbFaults == 1

\* last_verified_at IS NULL
NoTime == -1

\* concurrent resolution tasks
Tasks == {"t1", "t2"}
\* caller-supplied token symbols and chain names, in mixed case
SymbolInputs == {"usdt", "ETH"}
ChainInputs == {"Ethereum"}
\* addresses as the upstream APIs spell them
RawAddresses == {"0xA", "0xb"}

\* ------------------------------------------------------- string conversions
\* str.upper() on the strings of the model
Upper(s) ==
    CASE s = "usdt" -> "USDT"
      [] s = "eth" -> "ETH"
      [] s = "Eth" -> "ETH"
      [] s = "bnb" -> "BNB"
      [] s = "matic" -> "MATIC"
      [] s = "avax" -> "AVAX"
      [] s = "ftm" -> "FTM"
      [] OTHER -> s

\* str.lower() on the strings of the model
Lower(s) ==
    CASE s = "Ethereum" -> "ethereum"
      [] s = "ETHEREUM" -> "ethereum"
      [] s = "BSC" -> "bsc"
      [] s = "Polygon" -> "polygon"
      [] s = "Avalanche" -> "avalanche"
      [] s = "Fantom" -> "fantom"
      [] s = "Arbitrum" -> "arbitrum"
      [] s = "Optimism" -> "optimism"
      [] s = "Base" -> "base"
      [] s = "Foo" -> "foo"
      [] s = "0xA" -> "0xa"
      [] s = "0xB" -> "0xb"
      [] OTHER -> s

\* Python's None, as a dict-shaped value so that it compares with dicts
None == [none |-> TRUE]

\* ContractResolver.NATIVE_TOKENS
NATIVE_TOKENS ==
    [ethereum |-> "ETH", bsc |-> "BNB", polygon |-> "MATIC", avalanche |-> "AVAX",
     fantom |-> "FTM", arbitrum |-> "ETH", optimism |-> "ETH", base |-> "ETH"]

\* CoinGeckoClient.PLATFORM_IDS (its keys)
PLATFORM_IDS ==
    {"ethereum", "bsc", "polygon", "arbitrum", "optimism", "avalanche", "fantom",
     "base", "zksync", "scroll"}

\* OneInchClient.CHAIN_IDS (its keys)
CHAIN_IDS ==
    {"ethereum", "bsc", "polygon", "arbitrum", "optimism", "avalanche", "fantom",
     "base", "zksync", "scroll"}

VARIABLES
    now,                      \* datetime.utcnow(), in ticks
    contract_addresses,       \* table contract_addresses, a bag of rows
    api_call_logs,            \* table api_call_logs, a bag of rows
    failed_contract_lookups,  \* table failed_contract_lookups, a bag of rows
    db_faults,                \* database failures so far
    metrics,                  \* ContractResolver.metrics
    tasks,                    \* per task: position, locals, outcome of the last call
    returned,                 \* the latest return of get_contract_address
    api_resolved              \* history: provider resolutions that began on an empty cache

vars == <<now, contract_addresses, api_call_logs, failed_contract_lookups, db_faults,
          metrics, tasks, returned, api_resolved>>

\* the resolver's state apart from the clock
resolverVars == <<contract_addresses, api_call_logs, failed_contract_lookups, db_faults,
                  metrics, tasks, returned, api_resolved>>

VARIABLES
    circuit_breaker,          \* DexScreenerClient.circuit_breaker
    fetches,                  \* per _fetch coroutine: position and locals
    fetched,                  \* the latest _fetch that ended
    cb_trace                  \* history of the calls made on the breaker

dexVars == <<circuit_breaker, fetches, fetched, cb_trace>>

VARIABLES
    bucket,                   \* one TokenBucketRateLimiter
    acquirers,                \* per acquire() coroutine: position
    completed                 \* history: the times at which acquire() calls completed

limiterVars == <<bucket, acquirers, completed>>

VARIABLES
    chain_input,              \* the argument of normalize_chain_id
    normalized                \* what normalize_chain_id returned or raised

normalizeVars == <<chain_input, normalized>>

VARIABLES
    tokens_by_key,            \* TokenRegistry.tokens_by_key: unique key -> VerifiedToken
    addresses_by_symbol,      \* TokenRegistry.addresses_by_symbol: symbol key -> addresses
    scam_tokens,              \* TokenRegistry.scam_tokens
    adders,                   \* per add_token coroutine: position and arguments
    added,                    \* the latest add_token call that ended
    resolved,                 \* the latest resolve_symbol call
    add_calls                 \* history: add_token calls started so far

registryVars == <<tokens_by_key, addresses_by_symbol, scam_tokens, adders, added, resolved,
                  add_calls>>

VARIABLES
    token_data,               \* the TokenPrice given to _verify_token
    verification              \* what _verify_token returned

scoreVars == <<token_data, verification>>

VARIABLES
    api_stats                 \* the latest return of get_api_stats, with its argument

statsVars == <<api_stats>>

VARIABLES
    price_cache,              \* DexScreenerClient.cache: unique key -> (TokenPrice, time)
    price_metrics,            \* DexScreenerClient.metrics: the cache and error counters
    lookups,                  \* per get_token_pairs coroutine: position and locals
    looked                    \* the latest get_token_pairs call that ended

priceVars == <<price_cache, price_metrics, lookups, looked>>

VARIABLES
    limiters,                 \* RateLimiterManager.limiters: api name -> bucket
    resolutions,              \* per _fetch_from_apis coroutine: position and locals
    ended,                    \* the latest _fetch_from_apis call that ended
    cancels,                  \* history: cancellations delivered so far
    resolution_calls          \* history: _fetch_from_apis calls started so far

cancelVars == <<limiters, resolutions, ended, cancels, resolution_calls>>

allVars == <<vars, dexVars, limiterVars, normalizeVars, registryVars, scoreVars,
            statsVars,
            priceVars, cancelVars>>

\* utils.dexscreener is part of the repository, so its import succeeds
DEXSCREENER_AVAILABLE == TRUE

\* ------------------------------------------------------------ query helpers
\* no row
NoRow == [none |-> TRUE]

\* Query.first(): one of the matching rows (no ORDER BY), NoRow when none matches
First(matching) == IF matching = {} THEN {NoRow} ELSE matching

\* a table with one copy of `row` replaced by `updated`
Replace(table, row, updated) == (table (-) SetToBag({row})) (+) SetToBag({updated})

\* a table with `row` inserted
Insert(table, row) == table (+) SetToBag({row})

\* filter(token_symbol == ..., blockchain == ...) on a table
BySymbolChain(table, token_symbol, blockchain) ==
    {r \in BagToSet(table) : /\ r.token_symbol = Upper(token_symbol)
                             /\ r.blockchain = Lower(blockchain)}

\* filter(token_symbol == ..., blockchain == ..., contract_address == ...)
ByKey(table, contract_data) ==
    {r \in BagToSet(table) : /\ r.token_symbol = Upper(contract_data.symbol)
                             /\ r.blockchain = Lower(contract_data.blockchain)
                             /\ r.contract_address = Lower(contract_data.contract)}

\* ------------------------------------------------- ContractAddress, ContractCache
\* variant of is_cache_valid: the age test is reversed
is_cache_valid_reversed(row, cache_ttl_seconds, utcnow) ==
    IF row.last_verified_at = NoTime
    THEN FALSE
    ELSE utcnow - row.last_verified_at >= cache_ttl_seconds

\* ContractAddress.is_cache_valid
is_cache_valid(row, cache_ttl_seconds, utcnow) ==
    IF row.last_verified_at = NoTime
    THEN FALSE
    ELSE utcnow - row.last_verified_at < cache_ttl_seconds

\* variant of get_cached_contract: the row is returned whatever its age
get_cached_contract_any(first, db_ok, utcnow) ==
    IF ~db_ok THEN None
    ELSE IF first # NoRow THEN first
    ELSE None

\* ContractCache.get_cached_contract: `first` is the row the query returned,
\* db_ok is FALSE when the query raised
get_cached_contract(first, db_ok, utcnow) ==
    IF ~db_ok THEN None
    ELSE IF first # NoRow /\ is_cache_valid(first, cache_ttl, utcnow) THEN first
    ELSE None

\* the row save_contract creates
NewContractAddress(contract_data, utcnow) ==
    [token_symbol |-> Upper(contract_data.symbol),
     contract_address |-> Lower(contract_data.contract),
     blockchain |-> Lower(contract_data.blockchain),
     last_verified_at |-> utcnow]

\* variant of save_contract: no rollback when the commit raises
save_contract_no_rollback(table, contract_data, first, db_ok, utcnow) ==
    [rows |-> IF first # NoRow
              THEN Replace(table, first, [first EXCEPT !.last_verified_at = utcnow])
              ELSE Insert(table, NewContractAddress(contract_data, utcnow)),
     raised |-> ~db_ok]

\* variant of save_contract: a row is inserted whether or not the key exists
save_contract_always_insert(table, contract_data, first, db_ok, utcnow) ==
    IF ~db_ok THEN [rows |-> table, raised |-> TRUE]
    ELSE [rows |-> Insert(table, NewContractAddress(contract_data, utcnow)),
          raised |-> FALSE]

\* ContractCache.save_contract: `first` is the row the key query returned;
\* db_ok is FALSE when the query or the commit raised: rollback, then re-raise
save_contract(table, contract_data, first, db_ok, utcnow) ==
    IF ~db_ok THEN [rows |-> table, raised |-> TRUE]
    ELSE IF first # NoRow
    THEN [rows |-> Replace(table, first, [first EXCEPT !.last_verified_at = utcnow]),
          raised |-> FALSE]
    ELSE [rows |-> Insert(table, NewContractAddress(contract_data, utcnow)),
          raised |-> FALSE]

\* ContractCache.log_api_call: a failed insert is rolled back and swallowed;
\* called_at is the column's default, the time of the insert
log_api_call(table, api_name, success, db_ok, utcnow) ==
    IF db_ok
    THEN Insert(table, [api_name |-> api_name, success |-> success, called_at |-> utcnow])
    ELSE table

\* the row _log_failed_lookup creates
NewFailedContractLookup(token_symbol, blockchain, error_message) ==
    [token_symbol |-> Upper(token_symbol), blockchain |-> Lower(blockchain),
     error_message |-> error_message, retry_count |-> 1]

\* variant of _log_failed_lookup: a row is inserted whether or not one exists
_log_failed_lookup_always_insert(table, token_symbol, blockchain, error_message, first, db_ok) ==
    IF ~db_ok THEN table
    ELSE Insert(table, NewFailedContractLookup(token_symbol, blockchain, error_message))

\* variant of _log_failed_lookup: an existing row's retry_count is left as it is
_log_failed_lookup_no_increment(table, token_symbol, blockchain, error_message, first, db_ok) ==
    IF ~db_ok THEN table
    ELSE IF first # NoRow
    THEN Replace(table, first, [first EXCEPT !.error_message = error_message])
    ELSE Insert(table, NewFailedContractLookup(token_symbol, blockchain, error_message))

\* ContractResolver._log_failed_lookup: `first` is the row the query returned;
\* a failure is rolled back and swallowed
_log_failed_lookup(table, token_symbol, blockchain, error_message, first, db_ok) ==
    IF ~db_ok THEN table
    ELSE IF first # NoRow
    THEN Replace(table, first, [first EXCEPT !.retry_count = @ + 1,
                                             !.error_message = error_message])
    ELSE Insert(table, NewFailedContractLookup(token_symbol, blockchain, error_message))

\* ------------------------------------------------------------ fallback chain
\* variant of NextProvider: the 1inch block is skipped
NextProvider_skip_1inch(p) ==
    CASE p = "coingecko" -> IF DEXSCREENER_AVAILABLE THEN "dexscreener" ELSE "exhausted"
      [] p = "1inch" -> IF DEXSCREENER_AVAILABLE THEN "dexscreener" ELSE "exhausted"
      [] OTHER -> "exhausted"

\* the sequence of the try blocks of _fetch_from_apis: what follows provider p
\* when it gave no result
NextProvider(p) ==
    CASE p = "coingecko" -> "1inch"
      [] p = "1inch" -> IF DEXSCREENER_AVAILABLE THEN "dexscreener" ELSE "exhausted"
      [] OTHER -> "exhausted"

\* variant of AfterAttempt: a provider exception is re-raised
AfterAttempt_reraise(p, outcome) ==
    CASE outcome = "found" -> "return"
      [] outcome = "exception" -> "raise"
      [] OTHER -> NextProvider(p)

\* where _fetch_from_apis goes when the attempt on provider p ends: "found"
\* returns the data, "none" falls out of the try block, "exception" is
\* caught by the block's except clause; both go on to the next block
AfterAttempt(p, outcome) ==
    CASE outcome = "found" -> "return"
      [] outcome = "exception" -> NextProvider(p)
      [] OTHER -> NextProvider(p)

\* the await a task is suspended in when the attempt on provider p begins
FirstAwait(p) == IF p = "coingecko" THEN "cg_search" ELSE p

\* the provider a suspended task is trying
ProviderOf(pc) == IF pc \in {"cg_search", "cg_contract"} THEN "coingecko" ELSE pc

\* variant of ApiResult: the provider's own source tag is kept
ApiResult_keep_source(contract_data) == contract_data

\* get_contract_address, lines 138-143: the fetched dict is returned with its
\* source overwritten
ApiResult(contract_data) == [contract_data EXCEPT !.source = "api"]

\* get_contract_address, lines 99-106
NativeResult(token_symbol, blockchain) ==
    [symbol |-> token_symbol, contract |-> "NULL", blockchain |-> blockchain,
     source |-> "native"]

\* get_contract_address, lines 113-121
CacheResult(cached) ==
    [symbol |-> cached.token_symbol, contract |-> cached.contract_address,
     blockchain |-> cached.blockchain, source |-> "cache"]

\* CoinGeckoClient.get_contract_address, lines 94-101: the dict of a 200 answer
CoinGeckoData(token_symbol, raw_address) ==
    [contract_address |-> Lower(raw_address), symbol |-> Upper(token_symbol),
     source |-> "coingecko"]

\* _fetch_from_apis, lines 249-257 and 288-296: the dict built for 1inch and
\* DexScreener
BuiltData(token_symbol, address, blockchain, source) ==
    [symbol |-> token_symbol, contract |-> address, blockchain |-> blockchain,
     verified |-> FALSE, source |-> source]

\* the address a provider's dict carries, under whichever key it uses
ProviderAddress(contract_data) ==
    IF "contract" \in DOMAIN contract_data THEN contract_data.contract
    ELSE contract_data.contract_address

\* ------------------------------------------- DexScreener circuit breaker
\* CircuitBreaker.failure_threshold and timeout_seconds (in ticks), scaled down
failure_threshold == 2
timeout_seconds == 1
\* _fetch: max_retries
max_retries == 3
\* _fetch calls started in one run, and the last tick of the clock in such a run
MaxFetches == 4
MaxDexTime == 3

\* concurrent _fetch coroutines on one client
Fetchers == {"f1", "f2"}

\* what the upstream answers to one request of _fetch: a status, a 200 whose
\* body is not JSON (ContentTypeError, a ClientError), a timeout, a ClientError
Answers == {"200", "200_not_json", "429", "404", "500", "timeout", "network_error"}

\* CircuitBreaker.__init__
CircuitBreaker == [failures |-> 0, last_failure_time |-> NoTime, state |-> "closed"]

\* variant of is_open: the timeout has passed once it is reached
is_open_at_timeout(cb, time) ==
    IF cb.state = "closed" THEN [value |-> FALSE, self |-> cb]
    ELSE IF cb.state = "open"
    THEN IF time - cb.last_failure_time >= timeout_seconds
         THEN [value |-> FALSE, self |-> [cb EXCEPT !.state = "half-open"]]
         ELSE [value |-> TRUE, self |-> cb]
    ELSE [value |-> FALSE, self |-> cb]

\* CircuitBreaker.is_open at `time`: the value of the property and the breaker
\* after the read (the read moves open to half-open once the timeout passed)
is_open(cb, time) ==
    IF cb.state = "closed" THEN [value |-> FALSE, self |-> cb]
    ELSE IF cb.state = "open"
    THEN IF time - cb.last_failure_time > timeout_seconds
         THEN [value |-> FALSE, self |-> [cb EXCEPT !.state = "half-open"]]
         ELSE [value |-> TRUE, self |-> cb]
    ELSE [value |-> FALSE, self |-> cb]

\* variant of record_success: the state is left as it is
record_success_keep_state(cb) == [cb EXCEPT !.failures = 0]

\* CircuitBreaker.record_success
record_success(cb) == [cb EXCEPT !.failures = 0, !.state = "closed"]

\* variant of record_failure: opens only above the threshold
record_failure_above(cb, time) ==
    [failures |-> cb.failures + 1,
     last_failure_time |-> time,
     state |-> IF cb.failures + 1 > failure_threshold THEN "open" ELSE cb.state]

\* CircuitBreaker.record_failure at `time`
record_failure(cb, time) ==
    [failures |-> cb.failures + 1,
     last_failure_time |-> time,
     state |-> IF cb.failures + 1 >= failure_threshold THEN "open" ELSE cb.state]

\* a _fetch coroutine that is not running.  attempt and last_error are the
\* locals of _fetch; slept is the seconds of asyncio.sleep in the latest pass; requests, acquires, recorded and admitted_in are history: the
\* requests it issued, the limiter.acquire() calls it made, the outcomes it
\* recorded on the breaker, the state of the breaker when the is_open check
\* let it pass
IdleFetch ==
    [pc |-> "idle", attempt |-> 0, last_error |-> FALSE, error |-> "none",
     slept |-> 0,
     requests |-> 0, acquires |-> 0, recorded |-> 0, admitted_in |-> "none"]

\* ------------------------------------------------------ token bucket limiter
\* TokenBucketRateLimiter.capacity (requests per minute), scaled down
requests_per_minute == 2
\* ticks the bucket needs to refill one token; tokens are counted in
\* fractions of 1/TicksPerToken, so that the refill of one tick is one fraction
TicksPerToken == 2
\* acquire() calls started in one run, and the last tick of the clock in such a run
MaxAcquires == 4
MaxLimiterTime == 5

\* 60 seconds, in ticks
Minute == requests_per_minute * TicksPerToken

\* concurrent callers of acquire() on one bucket
Acquirers == {"a1", "a2", "a3"}

Min(a, b) == IF a <= b THEN a ELSE b

\* TokenBucketRateLimiter.__init__ at `time`; lock is the holder of self.lock
TokenBucketRateLimiter(rpm, time) ==
    [capacity |-> rpm, tokens |-> rpm * TicksPerToken, last_update |-> time,
     lock |-> "free"]

\* acquire, lines 24-29: refill by the time passed since last_update
Refill(b, time) ==
    [b EXCEPT !.tokens = Min(b.capacity * TicksPerToken, b.tokens + (time - b.last_update)),
              !.last_update = time]

\* acquire, line 33: (1 - tokens) * 60 / capacity, in ticks
wait_time(b) == TicksPerToken - b.tokens

\* variant of locked: the lock is never seen held
locked_never(b) == FALSE

\* asyncio.Lock.locked of self.lock
locked(b) == b.lock # "free"

\* ------------------------------------------------- chain normalisation
\* strings are sequences of characters
Lowercase == <<"a", "b", "c", "d", "e", "f", "g", "h", "i", "j", "k", "l", "m", "n", "o", "p", "q", "r", "s", "t", "u", "v", "w", "x", "y", "z">>
Uppercase == <<"A", "B", "C", "D", "E", "F", "G", "H", "I", "J", "K", "L", "M", "N", "O", "P", "Q", "R", "S", "T", "U", "V", "W", "X", "Y", "Z">>
\* str.isspace for the characters used
Whitespace == {" ", "\t"}

\* DEXSCREENER_CHAINS
DEXSCREENER_CHAINS ==
    {<<"e", "t", "h", "e", "r", "e", "u", "m">>,
     <<"b", "s", "c">>,
     <<"p", "o", "l", "y", "g", "o", "n">>,
     <<"a", "r", "b", "i", "t", "r", "u", "m">>,
     <<"o", "p", "t", "i", "m", "i", "s", "m">>,
     <<"b", "a", "s", "e">>,
     <<"a", "v", "a", "l", "a", "n", "c", "h", "e">>,
     <<"f", "a", "n", "t", "o", "m">>,
     <<"s", "o", "l", "a", "n", "a">>,
     <<"s", "u", "i">>,
     <<"a", "p", "t", "o", "s">>,
     <<"z", "k", "s", "y", "n", "c">>,
     <<"s", "c", "r", "o", "l", "l">>,
     <<"l", "i", "n", "e", "a">>,
     <<"b", "l", "a", "s", "t">>,
     <<"s", "o", "n", "i", "c">>,
     <<"b", "e", "r", "a", "c", "h", "a", "i", "n">>}

\* CHAIN_ALIASES
CHAIN_ALIASES ==
    (<<"e", "t", "h">> :> <<"e", "t", "h", "e", "r", "e", "u", "m">>) @@
    (<<"e", "t", "h", "e", "r">> :> <<"e", "t", "h", "e", "r", "e", "u", "m">>) @@
    (<<"m", "a", "i", "n", "n", "e", "t">> :> <<"e", "t", "h", "e", "r", "e", "u", "m">>) @@
    (<<"b", "n", "b">> :> <<"b", "s", "c">>) @@
    (<<"b", "i", "n", "a", "n", "c", "e">> :> <<"b", "s", "c">>) @@
    (<<"m", "a", "t", "i", "c">> :> <<"p", "o", "l", "y", "g", "o", "n">>) @@
    (<<"p", "o", "l", "y">> :> <<"p", "o", "l", "y", "g", "o", "n">>) @@
    (<<"a", "r", "b">> :> <<"a", "r", "b", "i", "t", "r", "u", "m">>) @@
    (<<"o", "p">> :> <<"o", "p", "t", "i", "m", "i", "s", "m">>) @@
    (<<"a", "v", "a", "x">> :> <<"a", "v", "a", "l", "a", "n", "c", "h", "e">>) @@
    (<<"f", "t", "m">> :> <<"f", "a", "n", "t", "o", "m">>) @@
    (<<"s", "o", "l">> :> <<"s", "o", "l", "a", "n", "a">>)

\* one character of str.lower and of str.upper
LowerChar(c) ==
    IF \E i \in 1..Len(Uppercase) : Uppercase[i] = c
    THEN Lowercase[CHOOSE i \in 1..Len(Uppercase) : Uppercase[i] = c]
    ELSE c
UpperChar(c) ==
    IF \E i \in 1..Len(Lowercase) : Lowercase[i] = c
    THEN Uppercase[CHOOSE i \in 1..Len(Lowercase) : Lowercase[i] = c]
    ELSE c

\* str.lower
lower(str) == [i \in 1..Len(str) |-> LowerChar(str[i])]

\* str.lstrip and str.rstrip
RECURSIVE lstrip(_)
lstrip(str) ==
    IF str # <<>> /\ Head(str) \in Whitespace THEN lstrip(Tail(str)) ELSE str
RECURSIVE rstrip(_)
rstrip(str) ==
    IF str # <<>> /\ str[Len(str)] \in Whitespace
    THEN rstrip(SubSeq(str, 1, Len(str) - 1))
    ELSE str

\* variant of strip: only leading whitespace is removed
strip_leading(str) == lstrip(str)

\* str.strip
strip(str) == rstrip(lstrip(str))

\* the two ways normalize_chain_id ends
InvalidChainError == [ok |-> FALSE, value |-> <<>>]
Return(value) == [ok |-> TRUE, value |-> value]

\* DexScreenerClient.normalize_chain_id
normalize_chain_id(input) ==
    IF input = <<>> THEN InvalidChainError
    ELSE LET lowered == strip(lower(input))
             canonical == IF lowered \in DOMAIN CHAIN_ALIASES
                          THEN CHAIN_ALIASES[lowered]
                          ELSE lowered
         IN IF canonical \notin DEXSCREENER_CHAINS
            THEN InvalidChainError
            ELSE Return(canonical)

\* words that are neither a chain nor an alias
UnknownWords ==
    {<<>>, <<"f", "o", "o">>, <<"e", "t", "h", "e", "r", "i", "u", "m">>, <<"b", " ", "s", "c">>, <<"e", "t", "h", "e", "r", "e", "u", "m", "2">>}

\* the spellings of a word a caller may pass: letter case and surrounding blanks
Spellings(word) ==
    LET upper == [i \in 1..Len(word) |-> UpperChar(word[i])]
        capitalized == IF word = <<>> THEN word ELSE <<UpperChar(word[1])>> \o Tail(word)
    IN {lead \o cased \o trail :
          lead \in {<<>>, <<" ">>, <<"\t", " ">>},
          cased \in {word, upper, capitalized},
          trail \in {<<>>, <<" ">>}}

\* the arguments normalize_chain_id is called with
ChainStrings ==
    UNION {Spellings(word) :
             word \in DEXSCREENER_CHAINS \cup DOMAIN CHAIN_ALIASES \cup UnknownWords}


\* ------------------------------------------------------- get_api_stats
\* the lookbacks asked of get_api_stats, in ticks of the clock
StatsLookbacks == {0, 2}

\* the names bound in the module contract_resolver when get_api_stats runs:
\* its imports (lines 5-27), its logger and its class
ModuleGlobals ==
    {"os", "time", "asyncio", "logging", "Optional", "Dict", "Any", "List",
     "datetime", "timedelta", "Session", "ContractAddress", "PairContract",
     "FailedContractLookup", "ContractCache", "RateLimiterManager", "CoinGeckoClient",
     "EtherscanClient", "OneInchClient", "DexScreenerClient", "DEXSCREENER_AVAILABLE",
     "logger", "ContractResolver"}

\* what get_api_stats returns from its except clause (lines 427-436)
StatsOnError ==
    [total_calls |-> 0, successful_calls |-> 0, failed_calls |-> 0, by_api |-> << >>,
     avg_response_time_ms |-> 0, cache_hit_rate |-> 0]

\* the rows of a table that satisfy `called_at >= cutoff_time`, as a bag
CalledSince(table, cutoff_time) ==
    [row \in {r \in BagToSet(table) : r.called_at >= cutoff_time} |-> CopiesIn(row, table)]

\* the rows of a bag of call-log rows that a predicate selects, counted
CountRows(logs, api_names, successes) ==
    BagCardinality([row \in {r \in BagToSet(logs) : /\ r.api_name \in api_names
                                                     /\ r.success \in successes}
                      |-> CopiesIn(row, logs)])

\* ContractResolver.get_metrics
get_metrics(m) ==
    [cache_hits |-> m.cache_hits, cache_misses |-> m.cache_misses,
     total_requests |-> m.total_requests,
     cache_hit_rate |-> IF m.total_requests > 0
                        THEN (m.cache_hits * 100) \div m.total_requests ELSE 0,
     api_calls_saved |-> m.cache_hits]

\* ContractResolver.get_api_stats: the name ApiCallLog is looked up when the
\* query is built (line 368) and a NameError, like any other exception, ends
\* in the except clause; response times are not recorded in this model, so
\* the averages are left at 0
get_api_stats(hours, table, m, utcnow) ==
    IF "ApiCallLog" \notin ModuleGlobals THEN StatsOnError
    ELSE LET logs == CalledSince(table, utcnow - hours)
             apis == {r.api_name : r \in BagToSet(logs)}
             resolver_metrics == get_metrics(m)
         IN [total_calls |-> BagCardinality(logs),
             successful_calls |-> CountRows(logs, apis, {TRUE}),
             failed_calls |-> CountRows(logs, apis, {FALSE}),
             by_api |-> [api \in apis |->
                           [total |-> CountRows(logs, {api}, BOOLEAN),
                            success |-> CountRows(logs, {api}, {TRUE}),
                            failed |-> CountRows(logs, {api}, {FALSE}),
                            avg_response_time_ms |-> 0]],
             avg_response_time_ms |-> 0,
             cache_hit_rate |-> resolver_metrics.cache_hit_rate,
             cache_hits |-> resolver_metrics.cache_hits,
             cache_misses |-> resolver_metrics.cache_misses,
             api_calls_saved |-> resolver_metrics.api_calls_saved]

InitStats == api_stats = None


\* --------------------------------------------- DexScreenerClient.cache
\* DexScreenerClient.cache_ttl (300 seconds), in ticks of the clock
price_cache_ttl == 2
\* get_token_pairs calls started in one run
MaxLookups == 3
\* the clock stops here
MaxPriceTime == 3

\* the get_token_pairs coroutines
Lookers == {"p1", "p2"}

\* the chain arguments: one chain by its name and by an alias
PriceChains == {<<"E", "t", "h", "e", "r", "e", "u", "m">>, <<"e", "t", "h">>}

\* the token_address arguments: one address in two spellings
PriceAddresses == {<<"0", "x", "A", "b">>, <<"0", "x", "a", "b">>}

\* one pair of the provider's answer: its chainId and its liquidity.usd
Pair(chainId, usd) == [chainId |-> chainId, liquidity_usd |-> usd]

\* _fetch raises a DexScreenerError
FetchError == [raised |-> "DexScreenerError"]

\* what _fetch hands to get_token_pairs: the `pairs` of the answer, or an error
PairsAnswers ==
    {[pairs |-> <<Pair(<<"e", "t", "h", "e", "r", "e", "u", "m">>, 5), Pair(<<"E", "t", "h", "e", "r", "e", "u", "m">>, 9)>>],
     [pairs |-> <<Pair(<<"e", "t", "h", "e", "r", "e", "u", "m">>, 7)>>],
     [pairs |-> <<Pair(<<"b", "s", "c">>, 8)>>],
     [pairs |-> <<>>],
     FetchError}

\* DexScreenerClient.make_unique_key
make_unique_key(chain_id, address) == lower(chain_id) \o <<":">> \o lower(address)

\* variant of is_fresh: an entry is still served when its age equals the TTL
is_fresh_at_ttl(cached_time, time) == time - cached_time <= price_cache_ttl

\* `time.time() - cached_time < self.cache_ttl` (line 311)
is_fresh(cached_time, time) == time - cached_time < price_cache_ttl

\* the loop of get_token_pairs over the pairs (lines 330-354): only the
\* pairs of the requested chain become a TokenPrice
RECURSIVE pairs_on_chain(_, _, _, _, _)
pairs_on_chain(pairs, chain_normalized, token_address, cache_key, time) ==
    IF pairs = <<>> THEN <<>>
    ELSE LET rest == pairs_on_chain(Tail(pairs), chain_normalized, token_address,
                                    cache_key, time)
         IN IF lower(Head(pairs).chainId) # chain_normalized THEN rest
            ELSE <<[chain_id |-> chain_normalized,
                    contract_address |-> lower(token_address),
                    liquidity_usd |-> Head(pairs).liquidity_usd,
                    unique_key |-> cache_key,
                    timestamp |-> time]>> \o rest

\* a get_token_pairs coroutine that is not running
IdleLookup == [pc |-> "idle", chain |-> <<>>, token_address |-> <<>>,
               chain_normalized |-> <<>>, cache_key |-> <<>>]

\* the end of a get_token_pairs call: hit says that the cache answered,
\* requested that _fetch was awaited, results is the list returned
LookupResult(chain, token_address, hit, requested, error, results) ==
    [chain |-> chain, token_address |-> token_address, hit |-> hit,
     requested |-> requested, error |-> error, results |-> results]

InitPrice ==
    /\ price_cache = << >>
    /\ price_metrics = [cache_hits |-> 0, cache_misses |-> 0, chain_errors |-> << >>]
    /\ lookups = [l \in Lookers |-> IdleLookup]
    /\ looked = None

\* ------------------------------------------------------------ cancellation
\* _fetch_from_apis calls started in one run, cancellations delivered in one
\* run, and the tick after which no call is started
MaxResolutions == 3
MaxCancels == 1
MaxCancelTime == 1

\* coroutines running _fetch_from_apis concurrently
Resolvers == {"t1", "t2"}

\* the apis _fetch_from_apis takes a rate-limit token for
LimitedApis == {"coingecko", "1inch", "dexscreener"}

\* RateLimiterManager.default_rpm, scaled down
default_rpm == 1

\* RateLimiterManager.get_limiter: the buckets after the one of api_name has
\* been created on first use
get_limiter(all_limiters, api_name, time) ==
    IF all_limiters[api_name] = None
    THEN [all_limiters EXCEPT ![api_name] = TokenBucketRateLimiter(default_rpm, time)]
    ELSE all_limiters

\* variant of lock_on_exit: the lock stays with its holder
lock_on_exit_kept(b) == b

\* `async with self.lock` is left, normally or by an exception
lock_on_exit(b) == [b EXCEPT !.lock = "free"]

\* TokenBucketRateLimiter.acquire by coroutine c up to its first suspension or,
\* without one, to its end.  queued says that another coroutine already waits
\* for self.lock: asyncio.Lock serves its waiters first
enter_acquire(b, c, time, queued) ==
    IF locked(b) \/ queued
    THEN [bucket |-> b, pc |-> "lock", wake_at |-> 0]
    ELSE LET refilled == Refill(b, time)
         IN IF refilled.tokens < TicksPerToken
            THEN [bucket |-> [refilled EXCEPT !.lock = c], pc |-> "throttle",
                  wake_at |-> time + wait_time(refilled)]
            ELSE [bucket |-> lock_on_exit([refilled EXCEPT !.tokens = @ - TicksPerToken]),
                  pc |-> "call", wake_at |-> 0]

\* TokenBucketRateLimiter.acquire after its sleep, lines 35 and 22
leave_acquire(b) == lock_on_exit([b EXCEPT !.tokens = 0])

\* whether `except handler` catches an exception of class raised:
\* asyncio.CancelledError derives from BaseException, the errors of a request
\* derive from Exception
Catches(handler, raised) ==
    LET mro == CASE raised = "CancelledError" -> {"CancelledError", "BaseException"}
                 [] raised = "TimeoutError" -> {"TimeoutError", "Exception", "BaseException"}
                 [] raised = "ClientError" -> {"ClientError", "Exception", "BaseException"}
                 [] OTHER -> {raised, "Exception", "BaseException"}
    IN handler \in mro

\* the except clauses an exception raised at position pc of the attempt on
\* provider p passes, innermost first, each with what _fetch_from_apis does
\* when it catches: "none" the client returns None, "retry" _fetch goes to its
\* next attempt, "next" the provider's block logs the failure and ends
Handlers(pc, p) ==
    CASE pc = "call" /\ p = "coingecko" ->
           <<[catches |-> "Exception", then |-> "none"],
             [catches |-> "Exception", then |-> "next"]>>
      [] pc = "call" /\ p = "1inch" ->
           <<[catches |-> "TimeoutError", then |-> "none"],
             [catches |-> "Exception", then |-> "none"],
             [catches |-> "Exception", then |-> "next"]>>
      [] pc \in {"call", "rate_limited"} /\ p = "dexscreener" ->
           <<[catches |-> "TimeoutError", then |-> "retry"],
             [catches |-> "ClientError", then |-> "retry"],
             [catches |-> "Exception", then |-> "next"]>>
      [] OTHER -> <<[catches |-> "Exception", then |-> "next"]>>

\* what follows an exception raised at pc: the `then` of the first clause
\* that catches it, "propagate" when none does
OnRaise(pc, p, raised) ==
    LET hs == Handlers(pc, p)
        catching == {i \in DOMAIN hs : Catches(hs[i].catches, raised)}
    IN IF catching = {}
       THEN "propagate"
       ELSE hs[CHOOSE i \in catching : \A j \in catching : i <= j].then

\* a coroutine that is not in _fetch_from_apis
IdleResolution ==
    [pc |-> "idle", provider |-> "none", wake_at |-> 0, attempt |-> 0, attempted |-> <<>>]

\* the end of a _fetch_from_apis call of coroutine c: raised is the exception
\* that left it, found whether a contract was returned, attempted the
\* providers it tried, at the position it was in
Ended(c, raised, found, attempted, at) ==
    [resolver |-> c, raised |-> raised, found |-> found, attempted |-> attempted, at |-> at]

InitCancel ==
    /\ limiters = [p \in LimitedApis |-> None]
    /\ resolutions = [c \in Resolvers |-> IdleResolution]
    /\ ended = None
    /\ cancels = 0
    /\ resolution_calls = 0

\* ------------------------------------------------------ TokenRegistry
\* add_token calls started in one run
MaxAdds == 2

\* the add_token coroutines
Adders == {"r1", "r2"}

\* str.upper
upper(str) == [i \in 1..Len(str) |-> UpperChar(str[i])]

\* the keys of TokenRegistry.whitelist
whitelist ==
    {<<"e", "t", "h", "e", "r", "e", "u", "m", ":", "0", "x", "a", "0", "b", "8", "6", "9", "9", "1", "c", "6", "2", "1", "8", "b", "3", "6", "c", "1", "d", "1", "9", "d", "4", "a", "2", "e", "9", "e", "b", "0", "c", "e", "3", "6", "0", "6", "e", "b", "4", "8">>,
     <<"e", "t", "h", "e", "r", "e", "u", "m", ":", "0", "x", "d", "a", "c", "1", "7", "f", "9", "5", "8", "d", "2", "e", "e", "5", "2", "3", "a", "2", "2", "0", "6", "2", "0", "6", "9", "9", "4", "5", "9", "7", "c", "1", "3", "d", "8", "3", "1", "e", "c", "7">>,
     <<"e", "t", "h", "e", "r", "e", "u", "m", ":", "0", "x", "c", "0", "2", "a", "a", "a", "3", "9", "b", "2", "2", "3", "f", "e", "8", "d", "0", "a", "0", "e", "5", "c", "4", "f", "2", "7", "e", "a", "d", "9", "0", "8", "3", "c", "7", "5", "6", "c", "c", "2">>,
     <<"b", "s", "c", ":", "0", "x", "5", "5", "d", "3", "9", "8", "3", "2", "6", "f", "9", "9", "0", "5", "9", "f", "f", "7", "7", "5", "4", "8", "5", "2", "4", "6", "9", "9", "9", "0", "2", "7", "b", "3", "1", "9", "7", "9", "5", "5">>,
     <<"b", "s", "c", ":", "0", "x", "8", "a", "c", "7", "6", "a", "5", "1", "c", "c", "9", "5", "0", "d", "9", "8", "2", "2", "d", "6", "8", "b", "8", "3", "f", "e", "1", "a", "d", "9", "7", "b", "3", "2", "c", "d", "5", "8", "0", "d">>}

\* the chain_id arguments: a chain in two spellings, and a second chain
RegistryChains ==
    {<<"e", "t", "h", "e", "r", "e", "u", "m">>,
     <<"E", "t", "h", "e", "r", "e", "u", "m">>,
     <<"b", "s", "c">>}

\* the address arguments: USDC on Ethereum in its checksum spelling (on the
\* whitelist once lower-cased), and an unlisted address in two spellings
RegistryAddresses ==
    {<<"0", "x", "A", "0", "b", "8", "6", "9", "9", "1", "c", "6", "2", "1", "8", "b", "3", "6", "c", "1", "d", "1", "9", "D", "4", "a", "2", "e", "9", "E", "b", "0", "c", "E", "3", "6", "0", "6", "e", "B", "4", "8">>,
     <<"0", "x", "A", "b">>,
     <<"0", "x", "a", "b">>}

\* the symbol arguments of resolve_symbol
RegistrySymbols == {<<"u", "s", "d", "c">>, <<"W", "E", "T", "H">>}

\* a price: mantissa * 10^exponent US dollars, mantissa in 0..9
Price(mantissa, exponent) == [mantissa |-> mantissa, exponent |-> exponent]

\* 0.000001 < price_usd < 1_000_000 (line 197)
price_in_range(price_usd) ==
    /\ price_usd.mantissa > 0
    /\ price_usd.exponent > -6 \/ (price_usd.exponent = -6 /\ price_usd.mantissa > 1)
    /\ price_usd.exponent < 6

\* the fields of a TokenPrice that the registry reads; liquidity and volume
\* are in US dollars
TokenPrice(symbol, price_usd, liquidity_usd, volume_24h, dex_id) ==
    [symbol |-> symbol, price_usd |-> price_usd, liquidity_usd |-> liquidity_usd,
     volume_24h |-> volume_24h, dex_id |-> dex_id]

\* variant of _verify_token: three passed checks already mark a scam
_verify_token_scam_at_three(data) ==
    LET check1 == IF data.liquidity_usd >= 100000 THEN 1 ELSE 0
        check2 == IF data.volume_24h >= 10000 THEN 1 ELSE 0
        check3 == IF /\ data.volume_24h > 0
                     /\ 10 * data.liquidity_usd > data.volume_24h
                     /\ data.liquidity_usd < 100 * data.volume_24h
                  THEN 1 ELSE 0
        check4 == IF price_in_range(data.price_usd) THEN 1 ELSE 0
        check5 == IF data.dex_id # "unknown" THEN 1 ELSE 0
        checks_passed == check1 + check2 + check3 + check4 + check5
    IN [is_verified |-> checks_passed >= 4,
        is_scam |-> checks_passed <= 3,
        scam_reason |-> None,
        checks_passed |-> checks_passed,
        checks_total |-> 5]

\* TokenRegistry._verify_token; the ratio liquidity / volume is compared
\* without dividing: 0.1 < l / v < 100 with v > 0 is 10 l > v and l < 100 v
_verify_token(data) ==
    LET check1 == IF data.liquidity_usd >= 100000 THEN 1 ELSE 0
        check2 == IF data.volume_24h >= 10000 THEN 1 ELSE 0
        check3 == IF /\ data.volume_24h > 0
                     /\ 10 * data.liquidity_usd > data.volume_24h
                     /\ data.liquidity_usd < 100 * data.volume_24h
                  THEN 1 ELSE 0
        check4 == IF price_in_range(data.price_usd) THEN 1 ELSE 0
        check5 == IF data.dex_id # "unknown" THEN 1 ELSE 0
        checks_passed == check1 + check2 + check3 + check4 + check5
        scam_indicators ==
            (IF check1 = 0 THEN <<"Low liquidity">> ELSE <<>>)
            \o (IF check2 = 0 THEN <<"Low volume">> ELSE <<>>)
            \o (IF data.volume_24h > 0 /\ check3 = 0
                THEN <<"Abnormal liquidity/volume ratio">> ELSE <<>>)
            \o (IF check4 = 0 THEN <<"Suspicious price">> ELSE <<>>)
            \o (IF check5 = 0 THEN <<"No DEX pairs found">> ELSE <<>>)
    IN [is_verified |-> checks_passed >= 4,
        is_scam |-> checks_passed <= 2,
        scam_reason |-> IF scam_indicators # <<>>
                        THEN [joined |-> scam_indicators] ELSE None,
        checks_passed |-> checks_passed,
        checks_total |-> 5]

\* variant of make_key: the address keeps its letter case
make_key_address_as_given(chain_id, address) == lower(chain_id) \o <<":">> \o address

\* TokenRegistry.make_key
make_key(chain_id, address) == lower(chain_id) \o <<":">> \o lower(address)
\* variant of already_registered: the primary index is not consulted
already_registered_never(key, tokens) == FALSE

\* `key in self.tokens_by_key` (line 100)
already_registered(key, tokens) == key \in DOMAIN tokens

\* no verification was requested (lines 114-116)
Unverified == [is_verified |-> FALSE, is_scam |-> FALSE, scam_reason |-> None]

\* variant of check_whitelist: the whitelist is ignored
check_whitelist_ignored(key, flags) == flags

\* the whitelist overrides the flags (lines 125-127)
check_whitelist(key, flags) ==
    IF key \in whitelist
    THEN [flags EXCEPT !.is_verified = TRUE, !.is_scam = FALSE]
    ELSE flags

\* the VerifiedToken built by add_token (lines 130-143), without its
\* constant fields decimals and holder_count, its name and its timestamp
VerifiedToken(chain_id, address, data, flags, key) ==
    [chain_id |-> chain_id,
     address |-> lower(address),
     symbol |-> data.symbol,
     liquidity_usd |-> data.liquidity_usd,
     is_verified |-> flags.is_verified,
     is_scam |-> flags.is_scam,
     scam_reason |-> flags.scam_reason,
     unique_key |-> key]

\* f"{chain_id}:{symbol.upper()}" (lines 153 and 236)
symbol_key(chain_id, symbol) == chain_id \o <<":">> \o upper(symbol)

\* dict.get(key, []) and list.append on addresses_by_symbol (lines 154-156, 237)
addresses_of(index, key) == IF key \in DOMAIN index THEN index[key] ELSE <<>>
append_address(index, key, address) ==
    (key :> Append(addresses_of(index, key), address)) @@ index

\* list.sort(key = liquidity_usd, reverse = True): a stable sort, elements of
\* equal liquidity keep their order
RECURSIVE insert_by_liquidity(_, _)
insert_by_liquidity(sorted, token) ==
    IF sorted = <<>> THEN <<token>>
    ELSE IF Head(sorted).liquidity_usd >= token.liquidity_usd
         THEN <<Head(sorted)>> \o insert_by_liquidity(Tail(sorted), token)
         ELSE <<token>> \o sorted
RECURSIVE sort_by_liquidity(_)
sort_by_liquidity(tokens) ==
    IF tokens = <<>> THEN <<>>
    ELSE insert_by_liquidity(sort_by_liquidity(SubSeq(tokens, 1, Len(tokens) - 1)),
                             tokens[Len(tokens)])

\* the list comprehension of resolve_symbol (lines 249-253)
RECURSIVE registered_tokens(_, _, _)
registered_tokens(chain_id, addresses, tokens) ==
    IF addresses = <<>> THEN <<>>
    ELSE LET key == make_key(chain_id, Head(addresses))
             rest == registered_tokens(chain_id, Tail(addresses), tokens)
         IN IF key \in DOMAIN tokens THEN <<tokens[key]>> \o rest ELSE rest

\* TokenRegistry.resolve_symbol
resolve_symbol(chain_id, symbol, tokens, index) ==
    LET addresses == addresses_of(index, symbol_key(chain_id, symbol))
        found == registered_tokens(chain_id, addresses, tokens)
    IN IF addresses = <<>> THEN None
       ELSE IF found = <<>> THEN None
       ELSE sort_by_liquidity(found)[1]

\* get_token_price raises an error of the client
PriceError == [raised |-> "DexScreenerError"]

\* what DexScreenerClient.get_token_price hands to add_token: the most liquid
\* pair of the token, nothing, or an error of the client
PriceAnswers ==
    {TokenPrice(<<"U", "S", "D", "C">>, Price(1, 0), 1000000, 50000, "uniswap"),
     TokenPrice(<<"U", "S", "D", "C">>, Price(1, 0), 50000, 500, "uniswap"),
     TokenPrice(<<"W", "E", "T", "H">>, Price(2, 3), 2000000, 50000, "uniswap"),
     None,
     PriceError}

\* an add_token coroutine that is not running
IdleAdder == [pc |-> "idle", chain_id |-> <<>>, address |-> <<>>, verify |-> FALSE]

\* variant of AddResult: a token that was put on the scam set is not returned,
\* ScamTokenError is raised for it
AddResult_raise_for_scam(chain_id, address, verify, awaited, error, token) ==
    [chain_id |-> chain_id, address |-> address, verify |-> verify,
     fetched |-> awaited,
     error |-> IF token # None /\ token.is_scam THEN "ScamTokenError" ELSE error,
     token |-> IF token # None /\ token.is_scam THEN None ELSE token]

\* the end of an add_token call: fetched says whether get_token_price was
\* awaited; token is the VerifiedToken returned, None when error is raised
AddResult(chain_id, address, verify, awaited, error, token) ==
    [chain_id |-> chain_id, address |-> address, verify |-> verify,
     fetched |-> awaited, error |-> error, token |-> token]

InitRegistry ==
    /\ tokens_by_key = << >>
    /\ addresses_by_symbol = << >>
    /\ scam_tokens = {}
    /\ adders = [a \in Adders |-> IdleAdder]
    /\ added = None
    /\ resolved = None
    /\ add_calls = 0

InitScore ==
    /\ token_data = None
    /\ verification = None



\* a task between two calls.  started .. read_failed are the history of the
\* resolution: the providers tried, whether an exception of a provider was
\* caught, whether the cache table was empty at the call, whether the store
\* write and the cache read raised.  stage .. base_token are the locals of
\* get_pair_contracts when the resolution is one of a pair: stage is "direct"
\* for a call of get_contract_address by the API's caller, "base" and "quote"
\* for the two calls made by get_pair_contracts, "parse" for a pair rejected
\* by get_pair_contracts itself
IdleTask ==
    [pc |-> "idle", token_symbol |-> "", blockchain |-> "", force_refresh |-> FALSE,
     result |-> None, error |-> "none",
     started |-> <<>>, caught |-> FALSE, cache_empty |-> FALSE,
     write_failed |-> FALSE, read_failed |-> FALSE,
     stage |-> "direct", pair |-> <<>>, quote_symbol |-> "", base_token |-> None]

\* the breaker, the bucket and the chain normaliser before any call
InitDex ==
    /\ circuit_breaker = CircuitBreaker
    /\ fetches = [f \in Fetchers |-> IdleFetch]
    /\ fetched = IdleFetch
    /\ cb_trace = [fetches |-> 0, consecutive |-> 0, failed_at |-> NoTime]

InitLimiter ==
    /\ bucket = TokenBucketRateLimiter(requests_per_minute, 0)
    /\ acquirers = [a \in Acquirers |-> [pc |-> "idle", wake_at |-> 0]]
    /\ completed = EmptyBag

InitNormalize ==
    /\ chain_input = <<>>
    /\ normalized = None

InitResolver ==
    /\ now = 0
    /\ contract_addresses = EmptyBag
    /\ api_call_logs = EmptyBag
    /\ failed_contract_lookups = EmptyBag
    /\ db_faults = 0
    /\ metrics = [cache_hits |-> 0, cache_misses |-> 0, total_requests |-> 0]
    /\ tasks = [t \in Tasks |-> IdleTask]
    /\ returned = IdleTask
    /\ api_resolved = {}

Init ==
    /\ InitResolver
    /\ InitDex
    /\ InitLimiter
    /\ InitNormalize
    /\ InitRegistry
    /\ InitCancel
    /\ InitPrice
    /\ InitStats
    /\ InitScore

\* whether a database operation may raise after `faults` failures; db_ok =
\* FALSE says it does
MayFail(faults) == {TRUE} \cup (IF faults < MaxDbFaults THEN {FALSE} ELSE {})

\* the count of database failures after an operation that raised iff ~db_ok
Faults(faults, db_ok) == IF db_ok THEN faults ELSE faults + 1

\* variant of is_native: only ethereum has a native token
is_native_ethereum_only(token_symbol, blockchain) ==
    blockchain = "ethereum" /\ token_symbol = NATIVE_TOKENS[blockchain]

\* get_contract_address, line 98: the native-token test
is_native(token_symbol, blockchain) ==
    blockchain \in DOMAIN NATIVE_TOKENS /\ token_symbol = NATIVE_TOKENS[blockchain]

\* get_contract_address returns: to the caller of the API, or, for the base
\* token of a pair, to get_pair_contracts (line 178), which keeps the result
\* and goes on to the quote token
Deliver(t, rec) ==
    IF rec.stage = "base"
    THEN /\ tasks' = [tasks EXCEPT ![t] =
                        [IdleTask EXCEPT !.pc = "pair_quote",
                                         !.stage = "base",
                                         !.pair = rec.pair,
                                         !.quote_symbol = rec.quote_symbol,
                                         !.token_symbol = rec.token_symbol,
                                         !.blockchain = rec.blockchain,
                                         !.base_token = rec.result]]
         /\ UNCHANGED returned
    ELSE /\ returned' = [rec EXCEPT !.pc = "idle"]
         /\ tasks' = [tasks EXCEPT ![t] = IdleTask]

\* get_contract_address up to its first await or its return (lines 93-125,
\* and _fetch_from_apis up to the CoinGecko request); locals holds the locals
\* of get_pair_contracts when it is the caller
Enter(t, locals, symbol_in, blockchain_in, force_refresh) ==
    /\ LET token_symbol == Upper(symbol_in)
           blockchain == Lower(blockchain_in)
           begun == [locals EXCEPT !.token_symbol = token_symbol,
                                   !.blockchain = blockchain,
                                   !.force_refresh = force_refresh]
           missed == [begun EXCEPT !.pc = FirstAwait("coingecko"),
                                   !.started = <<"coingecko">>,
                                   !.cache_empty = (contract_addresses = EmptyBag)]
       IN IF is_native(token_symbol, blockchain)
          THEN /\ Deliver(t, [begun EXCEPT !.result = NativeResult(token_symbol, blockchain)])
               /\ metrics' = [metrics EXCEPT !.total_requests = @ + 1]
               /\ UNCHANGED db_faults
          ELSE IF force_refresh
          THEN /\ tasks' = [tasks EXCEPT ![t] = missed]
               /\ metrics' = [metrics EXCEPT !.total_requests = @ + 1,
                                             !.cache_misses = @ + 1]
               /\ UNCHANGED <<db_faults, returned>>
          ELSE \E db_ok \in MayFail(db_faults) :
               \E first \in First(BySymbolChain(contract_addresses, token_symbol, blockchain)) :
                 LET cached == get_cached_contract(first, db_ok, now)
                 IN /\ db_faults' = Faults(db_faults, db_ok)
                    /\ IF cached # None
                       THEN /\ Deliver(t, [begun EXCEPT !.result = CacheResult(cached)])
                            /\ metrics' = [metrics EXCEPT !.total_requests = @ + 1,
                                                          !.cache_hits = @ + 1]
                       ELSE /\ tasks' = [tasks EXCEPT ![t] =
                                           [missed EXCEPT !.read_failed = ~db_ok]]
                            /\ metrics' = [metrics EXCEPT !.total_requests = @ + 1,
                                                          !.cache_misses = @ + 1]
                            /\ UNCHANGED returned
    /\ UNCHANGED <<now, contract_addresses, api_call_logs, failed_contract_lookups,
                   api_resolved>>
    /\ UNCHANGED <<dexVars, limiterVars, normalizeVars, registryVars, scoreVars, statsVars, priceVars, cancelVars>>

\* a caller of the API calls get_contract_address
Call(t, symbol_in, blockchain_in, force_refresh) ==
    /\ tasks[t].pc = "idle"
    /\ metrics.total_requests < MaxRequests
    /\ Enter(t, IdleTask, symbol_in, blockchain_in, force_refresh)

\* get_contract_address after a successful fetch (lines 127-143); tk is the
\* task after the fetch and faults the database failures so far.
\* contract_data['contract'] raises KeyError inside the try block when the
\* dict has no such key; save_contract is then never called
Resolved(t, tk, contract_data, faults) ==
    /\ IF "contract" \in DOMAIN contract_data
       THEN LET arg == [symbol |-> tk.token_symbol,
                        contract |-> contract_data.contract,
                        blockchain |-> tk.blockchain]
            IN \E db_ok \in MayFail(faults) :
               \E first \in First(ByKey(contract_addresses, arg)) :
                 LET saved == save_contract(contract_addresses, arg, first, db_ok, now)
                 IN /\ contract_addresses' = saved.rows
                    /\ db_faults' = Faults(faults, db_ok)
                    /\ Deliver(t, [tk EXCEPT !.result = ApiResult(contract_data),
                                              !.write_failed = saved.raised])
       ELSE /\ contract_addresses' = contract_addresses
            /\ db_faults' = faults
            /\ Deliver(t, [tk EXCEPT !.result = ApiResult(contract_data)])
    /\ api_resolved' =
         IF tk.cache_empty
         THEN api_resolved \cup {[token_symbol |-> tk.token_symbol,
                                  blockchain |-> tk.blockchain,
                                  contract |-> ProviderAddress(contract_data),
                                  at |-> now]}
         ELSE api_resolved
    /\ UNCHANGED failed_contract_lookups

\* get_contract_address after a fetch that returned None (lines 144-147)
Exhausted(t, tk, faults) ==
    /\ \E db_ok \in MayFail(faults) :
       \E first \in First(BySymbolChain(failed_contract_lookups,
                                        tk.token_symbol, tk.blockchain)) :
         /\ failed_contract_lookups' =
              _log_failed_lookup(failed_contract_lookups, tk.token_symbol, tk.blockchain,
                                 "All APIs failed", first, db_ok)
         /\ db_faults' = Faults(faults, db_ok)
         /\ returned' = [tk EXCEPT !.pc = "idle",
                                    !.error = "ResolutionFailed",
                                    !.write_failed = ~db_ok]
    /\ tasks' = [tasks EXCEPT ![t] = IdleTask]
    /\ UNCHANGED <<contract_addresses, api_resolved>>

\* _fetch_from_apis from the end of the await on provider p to the next await,
\* and get_contract_address to its return when the fetch returns.  A call-log
\* row is written on success and in the except clause; log_ok is FALSE when
\* that insert fails
EndAttempt(t, p, outcome, contract_data, log_ok) ==
    LET pos == AfterAttempt(p, outcome)
        logs_call == outcome \in {"found", "exception"}
        faults == IF logs_call THEN Faults(db_faults, log_ok) ELSE db_faults
        tk == [tasks[t] EXCEPT !.caught = @ \/ outcome = "exception"]
    IN /\ ~logs_call => log_ok
       /\ api_call_logs' =
            IF logs_call
            THEN log_api_call(api_call_logs, p, outcome = "found", log_ok, now)
            ELSE api_call_logs
       /\ CASE pos = "return" -> Resolved(t, tk, contract_data, faults)
            [] pos = "exhausted" -> Exhausted(t, tk, faults)
            [] pos = "raise" ->
                 /\ returned' = [tk EXCEPT !.pc = "idle", !.error = "ProviderError"]
                 /\ tasks' = [tasks EXCEPT ![t] = IdleTask]
                 /\ db_faults' = faults
                 /\ UNCHANGED <<contract_addresses, failed_contract_lookups, api_resolved>>
            [] OTHER ->
                 /\ tasks' = [tasks EXCEPT ![t] =
                                [tk EXCEPT !.pc = FirstAwait(pos),
                                           !.started = Append(@, pos)]]
                 /\ db_faults' = faults
                 /\ UNCHANGED <<contract_addresses, failed_contract_lookups, returned,
                                api_resolved>>
       /\ UNCHANGED <<now, metrics>>
       /\ UNCHANGED <<dexVars, limiterVars, normalizeVars, registryVars, scoreVars, statsVars, priceVars, cancelVars>>

\* the await on CoinGeckoClient.search_coin ends (lines 206-210)
CoinGeckoSearch(t) ==
    /\ tasks[t].pc = "cg_search"
    /\ \E outcome \in {"coin", "none", "exception"} :
         IF outcome = "coin"
         THEN /\ tasks' = [tasks EXCEPT ![t].pc = "cg_contract"]
              /\ UNCHANGED <<now, contract_addresses, api_call_logs,
                             failed_contract_lookups, db_faults, metrics, returned,
                             api_resolved>>
              /\ UNCHANGED <<dexVars, limiterVars, normalizeVars, registryVars, scoreVars, statsVars, priceVars, cancelVars>>
         ELSE \E log_ok \in MayFail(db_faults) :
                EndAttempt(t, "coingecko", outcome, None, log_ok)

\* the await on CoinGeckoClient.get_contract_address ends (lines 211-232)
CoinGeckoContract(t) ==
    /\ tasks[t].pc = "cg_contract"
    /\ \E answer \in {"none", "exception"} \cup RawAddresses :
       \E log_ok \in MayFail(db_faults) :
         /\ answer \in RawAddresses => tasks[t].blockchain \in PLATFORM_IDS
         /\ EndAttempt(t, "coingecko",
                       IF answer \in RawAddresses THEN "found" ELSE answer,
                       IF answer \in RawAddresses
                       THEN CoinGeckoData(tasks[t].token_symbol, answer)
                       ELSE None,
                       log_ok)

\* the await on OneInchClient.search_tokens ends (lines 236-268)
OneInchSearch(t) ==
    /\ tasks[t].pc = "1inch"
    /\ \E answer \in {"none", "exception"} \cup RawAddresses :
       \E log_ok \in MayFail(db_faults) :
         /\ answer \in RawAddresses => tasks[t].blockchain \in CHAIN_IDS
         /\ EndAttempt(t, "1inch",
                       IF answer \in RawAddresses THEN "found" ELSE answer,
                       IF answer \in RawAddresses
                       THEN BuiltData(tasks[t].token_symbol, Lower(answer),
                                      tasks[t].blockchain, "1inch")
                       ELSE None,
                       log_ok)

\* chain ids of the tokens DexScreener's search answers with
DexChains == {"ethereum", "bsc"}

\* DexScreenerClient.search_tokens: its possible token lists
DexTokenLists ==
    LET Token == [chain_id : DexChains, address : {Lower(a) : a \in RawAddresses}]
    IN {<<>>} \cup {<<x>> : x \in Token} \cup {<<x, y>> : x, y \in Token}

\* the await on DexScreenerClient.search_tokens ends (lines 273-307): the
\* first token of the requested chain is taken
DexScreenerSearch(t) ==
    /\ tasks[t].pc = "dexscreener"
    /\ \E raised \in BOOLEAN :
       \E tokens \in (IF raised THEN {<<>>} ELSE DexTokenLists) :
       \E log_ok \in MayFail(db_faults) :
         LET on_chain == {i \in 1..Len(tokens) :
                            Lower(tokens[i].chain_id) = Lower(tasks[t].blockchain)}
             token == tokens[CHOOSE i \in on_chain : \A j \in on_chain : i <= j]
             outcome == IF raised THEN "exception"
                        ELSE IF on_chain = {} THEN "none" ELSE "found"
         IN EndAttempt(t, "dexscreener", outcome,
                       IF outcome = "found"
                       THEN BuiltData(tasks[t].token_symbol, token.address,
                                      tasks[t].blockchain, "dexscreener")
                       ELSE None,
                       log_ok)

\* the clock advances
Tick ==
    /\ now < MaxTime
    /\ now' = now + 1
    /\ UNCHANGED <<contract_addresses, api_call_logs, failed_contract_lookups, db_faults,
                   metrics, tasks, returned, api_resolved>>
    /\ UNCHANGED <<dexVars, limiterVars, normalizeVars, registryVars, scoreVars, statsVars, priceVars, cancelVars>>

Next ==
    \/ \E t \in Tasks, symbol_in \in SymbolInputs, blockchain_in \in ChainInputs,
          force_refresh \in BOOLEAN :
         Call(t, symbol_in, blockchain_in, force_refresh)
    \/ \E t \in Tasks : CoinGeckoSearch(t)
    \/ \E t \in Tasks : CoinGeckoContract(t)
    \/ \E t \in Tasks : OneInchSearch(t)
    \/ \E t \in Tasks : DexScreenerSearch(t)
    \/ Tick

Spec == Init /\ [][Next]_vars

\* ---------------------------------------------------------------- properties
\* the priority order of the fallback chain
ChainOrder == <<"coingecko", "1inch", "dexscreener">>

\* in this step task t returns from get_contract_address after trying providers
ProviderReturn(t) == tasks[t].pc # "idle" /\ tasks'[t].pc = "idle"

\* in this step get_contract_address is called
CallStep == metrics'.total_requests # metrics.total_requests

\* in this step the attempt of task t on a provider ends
AttemptEnds(t) ==
    /\ tasks[t].pc # "idle"
    /\ tasks'[t] # tasks[t]
    /\ ~(tasks[t].pc = "cg_search" /\ tasks'[t].pc = "cg_contract")

\* the call made in a CallStep: the record of its symbol, chain and flag
Called ==
    IF tasks' = tasks THEN returned'
    ELSE tasks'[CHOOSE t \in Tasks : tasks'[t] # tasks[t]]

\* the resolutions of (token_symbol, blockchain) that began on an empty cache,
\* succeeded through a provider and are younger than the TTL
FreshResolved(token_symbol, blockchain) ==
    {h \in api_resolved : /\ h.token_symbol = token_symbol
                          /\ h.blockchain = blockchain
                          /\ now - h.at < cache_ttl}

\* C1: a resolution that began on an empty cache and succeeded through a
\* provider returns that provider's address under `contract` with source
\* 'api', and every later unforced resolution of the same symbol and chain
\* within the TTL returns source 'cache' with that address and calls no
\* provider (in runs where the database has not failed).
C1_EndToEndThenCached ==
    [][ /\ \A t \in Tasks :
             (/\ ProviderReturn(t)
              /\ returned'.result # None
              /\ returned'.cache_empty
              /\ db_faults' = 0)
             => /\ returned'.result.source = "api"
                /\ "contract" \in DOMAIN returned'.result
                /\ \E h \in api_resolved' :
                     /\ h.token_symbol = returned'.token_symbol
                     /\ h.blockchain = returned'.blockchain
                     /\ h.at = now
                     /\ h.contract = returned'.result.contract
        /\ CallStep =>
             LET fresh == FreshResolved(Called.token_symbol, Called.blockchain)
             IN (~Called.force_refresh /\ fresh # {} /\ db_faults' = 0)
                => /\ tasks' = tasks
                   /\ returned'.result.source = "cache"
                   /\ \E h \in fresh : h.contract = returned'.result.contract
      ]_vars

\* a resolution answered by a provider after an earlier provider gave nothing
AnsweredByLater ==
    /\ returned.result # None
    /\ Len(returned.started) >= 2

\* C2 as claimed: when an earlier provider fails and a later provider B
\* succeeds, the returned result has source equal to B.
C2_SourceIsProvider ==
    AnsweredByLater => returned.result.source = returned.started[Len(returned.started)]

\* C2 as amended: when an earlier provider fails and a later provider B
\* succeeds, the returned result has source 'api', not B.
C2_SourceIsApi ==
    AnsweredByLater => /\ returned.result.source = "api"
                       /\ returned.result.source # returned.started[Len(returned.started)]

C2_Witness ==
    /\ AnsweredByLater
    /\ returned.caught
    /\ returned.started = <<"coingecko", "1inch">>
    /\ returned.result.source = "api"

\* C3: every provider attempt appends exactly one call-log record naming that
\* provider, whatever its outcome (success, exception, no result), while the
\* database has not failed.
C3_OneLogPerAttempt ==
    [][ \A t \in Tasks :
          (AttemptEnds(t) /\ db_faults' = 0)
          => \E ok \in BOOLEAN :
               api_call_logs' = Insert(api_call_logs,
                                       [api_name |-> ProviderOf(tasks[t].pc),
                                        success |-> ok, called_at |-> now])
      ]_vars

FailedLookupRecorded ==
    LET old == BySymbolChain(failed_contract_lookups,
                             returned'.token_symbol, returned'.blockchain)
    IN IF old = {}
       THEN failed_contract_lookups' =
              Insert(failed_contract_lookups,
                     [token_symbol |-> returned'.token_symbol,
                      blockchain |-> returned'.blockchain,
                      error_message |-> "All APIs failed",
                      retry_count |-> 1])
       ELSE \E r \in old :
              failed_contract_lookups' =
                Replace(failed_contract_lookups, r,
                        [r EXCEPT !.retry_count = r.retry_count + 1,
                                  !.error_message = "All APIs failed"])

\* C5 as claimed: when the cache misses and every provider fails or returns
\* nothing, the resolution fails with the resolution-failed error and a
\* FailedLookup is recorded (created with retry_count 1, else incremented).
C5_FailedLookupAlwaysRecorded ==
    [][ \A t \in Tasks :
          (ProviderReturn(t) /\ returned'.result = None)
          => /\ returned'.error = "ResolutionFailed"
             /\ returned'.started = ChainOrder
             /\ FailedLookupRecorded
      ]_vars

\* C5 as amended: on exhaustion the resolution fails with the
\* resolution-failed error; the FailedLookup is recorded (created with
\* retry_count 1, else incremented) unless the store write itself fails, and
\* then the table is left as it was.
C5_FailedLookupRecordedUnlessStoreFails ==
    [][ \A t \in Tasks :
          (ProviderReturn(t) /\ returned'.result = None)
          => /\ returned'.error = "ResolutionFailed"
             /\ returned'.started = ChainOrder
             /\ IF returned'.write_failed
                THEN failed_contract_lookups' = failed_contract_lookups
                ELSE FailedLookupRecorded
      ]_vars

C5_Witness ==
    /\ returned.error = "ResolutionFailed"
    /\ ~returned.write_failed
    /\ \E r \in BagToSet(failed_contract_lookups) :
         /\ r.token_symbol = returned.token_symbol
         /\ r.blockchain = returned.blockchain
         /\ r.retry_count = 2

\* C6: no failure of a single provider escapes the fallback loop: after it the
\* next provider is tried, and the only error a resolution surfaces is
\* exhaustion of the whole chain.
C6_ProviderFailuresAbsorbed ==
    /\ returned.error \in {"none", "ResolutionFailed"}
    /\ returned.error = "ResolutionFailed"
       => (returned.result = None /\ returned.started = ChainOrder)
    /\ \A t \in Tasks :
         (tasks[t].pc # "idle" /\ tasks[t].caught) => Len(tasks[t].started) >= 2

C6_Witness ==
    /\ returned.caught
    /\ returned.error = "none"
    /\ returned.result # None
    /\ returned.result.source = "api"

\* C7: if the upsert fails while a provider's resolution is stored, the cache
\* rows are left unchanged, no exception escapes, and the caller receives the
\* provider's data with source 'api'.
C7_UpsertFailureDegrades ==
    [][ \A t \in Tasks :
          (ProviderReturn(t) /\ returned'.result # None /\ returned'.write_failed)
          => /\ contract_addresses' = contract_addresses
             /\ returned'.error = "none"
             /\ returned'.result.source = "api"
             /\ ProviderAddress(returned'.result) \in {Lower(a) : a \in RawAddresses}
      ]_vars

C7_Witness ==
    /\ returned.result # None
    /\ returned.write_failed
    /\ returned.result.source = "api"
    /\ contract_addresses = EmptyBag

\* C8: a cache lookup returns a row only if that row's last_verified_at is set
\* and younger than the TTL; a missing row, an expired row or a read error is
\* a miss and never an error.
C8_LookupOnlyValid ==
    [][ CallStep
        => /\ (tasks' = tasks /\ returned'.result.source = "cache")
              => \E r \in BySymbolChain(contract_addresses,
                                        returned'.token_symbol, returned'.blockchain) :
                   /\ r.contract_address = returned'.result.contract
                   /\ r.last_verified_at # NoTime
                   /\ now - r.last_verified_at < cache_ttl
           /\ tasks' = tasks => returned'.error = "none"
           /\ \A t \in Tasks :
                tasks'[t] # tasks[t]
                => /\ tasks'[t].pc = "cg_search"
                   /\ tasks'[t].error = "none"
                   /\ (~tasks'[t].force_refresh /\ ~tasks'[t].read_failed)
                      => \E first \in First(BySymbolChain(contract_addresses,
                                              tasks'[t].token_symbol, tasks'[t].blockchain)) :
                           \/ first = NoRow
                           \/ now - first.last_verified_at >= cache_ttl
      ]_vars

C8_Witness ==
    /\ returned.result # None
    /\ returned.result.source = "cache"
    /\ ~returned.force_refresh
    /\ \E r \in BagToSet(contract_addresses) :
         /\ r.contract_address = returned.result.contract
         /\ is_cache_valid(r, cache_ttl, now)

\* C9: a cached row is valid exactly when its last_verified_at is set and
\* now - last_verified_at < TTL; as time advances a row that is invalid stays
\* invalid until a store stamps its last_verified_at again.
C9_ValidityMonotone ==
    [][ \A r \in BagToSet(contract_addresses') :
          /\ is_cache_valid(r, cache_ttl, now')
             <=> (r.last_verified_at # NoTime /\ now' - r.last_verified_at < cache_ttl)
          /\ is_cache_valid(r, cache_ttl, now')
             => \/ /\ r \in BagToSet(contract_addresses)
                   /\ is_cache_valid(r, cache_ttl, now)
                \/ /\ r.last_verified_at = now'
                   /\ contract_addresses' # contract_addresses
      ]_vars

C9_Witness ==
    /\ \E r \in BagToSet(contract_addresses) : ~is_cache_valid(r, cache_ttl, now)
    /\ \E r \in BagToSet(contract_addresses) : is_cache_valid(r, cache_ttl, now)

\* the rows of a table that have the key of row r
SameKey(table, r) ==
    {q \in BagToSet(table) : /\ q.token_symbol = r.token_symbol
                             /\ q.blockchain = r.blockchain
                             /\ q.contract_address = r.contract_address}

\* at most one row per (symbol, chain, contract_address)
OneRowPerKey(table) ==
    \A r \in BagToSet(table) : SameKey(table, r) = {r} /\ CopiesIn(r, table) = 1

\* C10: under any interleaving of resolutions the cache holds at most one row
\* per (symbol, chain, contract_address): a store on an existing key updates
\* that row and stamps last_verified_at = now, a store on a new key inserts
\* one row, and no operation deletes a row.
C10_UpsertByKey ==
    [][ /\ OneRowPerKey(contract_addresses')
        /\ \A r \in BagToSet(contract_addresses) : SameKey(contract_addresses', r) # {}
        /\ \A t \in Tasks :
             (/\ ProviderReturn(t)
              /\ returned'.result # None
              /\ "contract" \in DOMAIN returned'.result
              /\ ~returned'.write_failed)
             => LET row == [token_symbol |-> returned'.token_symbol,
                            contract_address |-> returned'.result.contract,
                            blockchain |-> returned'.blockchain,
                            last_verified_at |-> now]
                    old == SameKey(contract_addresses, row)
                IN IF old = {}
                   THEN contract_addresses' = Insert(contract_addresses, row)
                   ELSE \E r \in old : contract_addresses' = Replace(contract_addresses, r, row)
      ]_vars

C10_Witness ==
    /\ returned.result # None
    /\ returned.cache_empty
    /\ ~returned.force_refresh
    /\ ~returned.write_failed
    /\ "contract" \in DOMAIN returned.result
    /\ db_faults = 0
    /\ \E at \in 0..MaxTime :
         CopiesIn([api_name |-> "1inch", success |-> TRUE, called_at |-> at],
                  api_call_logs) = 2
    /\ BagCardinality(contract_addresses) = 1

\* ================================================ DexScreenerClient._fetch
\* _fetch coroutines of one DexScreenerClient sharing its circuit breaker.
\* The awaits of a _fetch are limiter.acquire(), the request and the sleeps
\* between retries; one step below runs from the answer of a request to the
\* next request.  The limiter is the subject of SpecLimiter and leaves the
\* breaker alone.

\* the history after record_success / record_failure has been called
TraceSuccess(tr) == [tr EXCEPT !.consecutive = 0]
TraceFailure(tr, time) == [tr EXCEPT !.consecutive = @ + 1, !.failed_at = time]

\* _fetch up to its first await (lines 229-241) on a client whose breaker is
\* cb: the is_open check
StartFetch(f, cb) ==
    /\ fetches[f].pc = "idle"
    /\ cb_trace.fetches < MaxFetches
    /\ LET check == is_open(cb, now)
       IN /\ circuit_breaker' = check.self
          /\ IF check.value
             THEN /\ fetched' = [IdleFetch EXCEPT !.error = "CircuitOpen"]
                  /\ UNCHANGED fetches
             ELSE /\ fetches' = [fetches EXCEPT ![f] =
                                   [IdleFetch EXCEPT !.pc = "request",
                                                     !.acquires = 1,
                                                     !.admitted_in = check.self.state]]
                  /\ UNCHANGED fetched
    /\ cb_trace' = [cb_trace EXCEPT !.fetches = @ + 1]
    /\ UNCHANGED <<now, resolverVars, limiterVars, normalizeVars, registryVars, scoreVars, statsVars, priceVars, cancelVars>>

\* a _fetch starts on the client the coroutines share
BeginFetch(f) == StartFetch(f, circuit_breaker)

\* _fetch leaves by return or raise: fe is the coroutine at that point
EndFetch(f, fe, cb, tr) ==
    /\ fetched' = [fe EXCEPT !.pc = "idle"]
    /\ fetches' = [fetches EXCEPT ![f] = IdleFetch]
    /\ circuit_breaker' = cb
    /\ cb_trace' = tr

\* variant of NextAttempt: the loop makes one pass more
NextAttempt_one_more(f, fe, cb, tr) ==
    IF fe.attempt + 1 <= max_retries
    THEN /\ fetches' = [fetches EXCEPT ![f] = [fe EXCEPT !.attempt = @ + 1,
                                                         !.acquires = @ + 1]]
         /\ circuit_breaker' = cb
         /\ cb_trace' = tr
         /\ UNCHANGED fetched
    ELSE EndFetch(f, [fe EXCEPT !.recorded = @ + 1,
                                !.error = IF fe.last_error THEN "LastError" ELSE "Failed"],
                  record_failure(cb, now), TraceFailure(tr, now))

\* the end of one pass of the retry loop without return or raise (lines
\* 278-291): the next pass, or after the last pass record_failure and raise
NextAttempt(f, fe, cb, tr) ==
    IF fe.attempt + 1 < max_retries
    THEN /\ fetches' = [fetches EXCEPT ![f] = [fe EXCEPT !.attempt = @ + 1,
                                                         !.acquires = @ + 1]]
         /\ circuit_breaker' = cb
         /\ cb_trace' = tr
         /\ UNCHANGED fetched
    ELSE EndFetch(f, [fe EXCEPT !.recorded = @ + 1,
                                !.error = IF fe.last_error THEN "LastError" ELSE "Failed"],
                  record_failure(cb, now), TraceFailure(tr, now))

\* the sleep after a 429 answer to attempt number `attempt` (lines 257-260)
rate_limit_wait(attempt) == Min(2 ^ attempt * 2, 30)

\* the sleep before the retry that follows attempt number `attempt`, made
\* unless that attempt was the last (lines 280-282)
retry_wait(attempt) == IF attempt < max_retries - 1 THEN 2 ^ attempt ELSE 0

\* the request of one pass is answered (lines 243-282)
Request(f) ==
    /\ fetches[f].pc = "request"
    /\ \E answer \in Answers :
         LET fe == [fetches[f] EXCEPT !.requests = @ + 1, !.slept = 0]
         IN CASE answer = "200" ->
                   EndFetch(f, [fe EXCEPT !.recorded = @ + 1],
                            record_success(circuit_breaker), TraceSuccess(cb_trace))
              [] answer = "200_not_json" ->
                   NextAttempt(f, [fe EXCEPT !.recorded = @ + 1, !.last_error = TRUE,
                                              !.slept = retry_wait(fe.attempt)],
                               record_success(circuit_breaker), TraceSuccess(cb_trace))
              [] answer = "429" ->
                   NextAttempt(f, [fe EXCEPT !.slept = rate_limit_wait(fe.attempt)],
                               circuit_breaker, cb_trace)
              [] answer = "404" ->
                   EndFetch(f, [fe EXCEPT !.error = "NotFound"], circuit_breaker, cb_trace)
              [] answer = "500" ->
                   EndFetch(f, [fe EXCEPT !.error = "ApiError"], circuit_breaker, cb_trace)
              [] OTHER ->
                   NextAttempt(f, [fe EXCEPT !.last_error = TRUE,
                                              !.slept = retry_wait(fe.attempt)],
                               circuit_breaker, cb_trace)
    /\ UNCHANGED <<now, resolverVars, limiterVars, normalizeVars, registryVars, scoreVars, statsVars, priceVars, cancelVars>>

\* the clock advances
TickDex ==
    /\ now < MaxDexTime
    /\ now' = now + 1
    /\ UNCHANGED <<dexVars, resolverVars, limiterVars, normalizeVars, registryVars, scoreVars, statsVars, priceVars, cancelVars>>

NextDex ==
    \/ \E f \in Fetchers : BeginFetch(f)
    \/ \E f \in Fetchers : Request(f)
    \/ TickDex

SpecDex == Init /\ [][NextDex]_allVars

\* _fetch_from_apis reaches its DexScreener block (contract_resolver.py lines
\* 273-276): `async with DexScreenerClient()` constructs a client, whose
\* __init__ makes a CircuitBreaker, and search_tokens starts a _fetch on it
DexScreenerBlock(f) == StartFetch(f, CircuitBreaker)

\* the resolver whose resolutions follow one another
Resolver == "f1"

NextResolverDex ==
    \/ DexScreenerBlock(Resolver)
    \/ Request(Resolver)
    \/ TickDex

\* successive resolutions of one ContractResolver that reach DexScreener
SpecResolverDex == Init /\ [][NextResolverDex]_allVars

\* every request is answered: session.get has timeout=10, which ends a
\* request that got no response as asyncio.TimeoutError
SpecDexFair == SpecDex /\ \A f \in Fetchers : WF_allVars(Request(f))

\* the _fetch coroutine f after a step that moved it
AfterStep(f) == IF fetches'[f].pc = "idle" THEN fetched' ELSE fetches'[f]

\* in this step _fetch f recorded an outcome on the breaker
Recorded(f) ==
    /\ fetches[f].pc = "request"
    /\ fetches'[f] # fetches[f]
    /\ AfterStep(f).recorded > fetches[f].recorded

\* in this step _fetch f left by return or raise
FetchEnds(f) == fetches[f].pc = "request" /\ fetches'[f].pc = "idle"

\* C17: with threshold N the breaker reports not-open after any run of fewer
\* than N consecutive record_failure() calls, reports open from the N-th
\* consecutive failure until the cooldown has elapsed, and a record_success()
\* puts the consecutive count back to zero.
C17_OpensAtThreshold ==
    /\ circuit_breaker.failures = cb_trace.consecutive
    /\ cb_trace.consecutive < failure_threshold
       => ~is_open(circuit_breaker, now).value
    /\ (/\ cb_trace.consecutive >= failure_threshold
        /\ now - cb_trace.failed_at <= timeout_seconds)
       => is_open(circuit_breaker, now).value

C17_Witness ==
    /\ cb_trace.consecutive = failure_threshold
    /\ fetched.error \in {"LastError", "Failed"}
    /\ now - cb_trace.failed_at <= timeout_seconds
    /\ is_open(circuit_breaker, now).value

\* C18: once the breaker has opened and the cooldown has elapsed, the is_open
\* check admits one trial call, and until that trial's outcome is recorded no
\* other call is admitted: at most one admitted-in-half-open _fetch is in flight.
C18_OneTrialAtATime ==
    Cardinality({f \in Fetchers : /\ fetches[f].pc # "idle"
                                  /\ fetches[f].admitted_in = "half-open"}) <= 1

\* C19: the breaker starts closed and is always closed, open or half-open;
\* record_success() from any state sets the count to 0 and the state to
\* closed; in half-open a record_failure() reopens it with a fresh
\* last-failure time; it is open or half-open only while the count is >= N.
C19_BreakerStates ==
    /\ circuit_breaker = [failures |-> 0, last_failure_time |-> NoTime, state |-> "closed"]
    /\ [][ /\ circuit_breaker'.state \in {"closed", "open", "half-open"}
           /\ circuit_breaker'.state \in {"open", "half-open"}
              => circuit_breaker'.failures >= failure_threshold
           /\ \A f \in Fetchers :
                /\ (Recorded(f) /\ cb_trace'.consecutive = 0)
                   => /\ circuit_breaker'.failures = 0
                      /\ circuit_breaker'.state = "closed"
                /\ (/\ Recorded(f)
                    /\ cb_trace'.consecutive = cb_trace.consecutive + 1
                    /\ circuit_breaker.state = "half-open")
                   => /\ circuit_breaker'.state = "open"
                      /\ circuit_breaker'.last_failure_time = now
         ]_allVars

C19_Witness ==
    /\ circuit_breaker.state = "open"
    /\ circuit_breaker.last_failure_time = now
    /\ fetched.admitted_in = "half-open"
    /\ fetched.error \in {"LastError", "Failed"}

\* C20: every _fetch that got past the is_open check and issued a request
\* ends having recorded exactly one outcome on the breaker, and a trial
\* admitted in half-open leaves the breaker closed or open.
C20_OneOutcomePerFetch ==
    [][ \A f \in Fetchers :
          FetchEnds(f)
          => /\ fetched'.requests >= 1
             /\ fetched'.recorded = 1
             /\ fetched'.admitted_in = "half-open"
                => circuit_breaker'.state \in {"closed", "open"}
      ]_allVars

\* ================================================ TokenBucketRateLimiter
\* acquire() coroutines on one bucket.  `async with self.lock` takes the lock
\* without suspending when it is free and suspends the caller when it is
\* held; the only other await of acquire is the sleep, made while holding the
\* lock.

\* acquire() calls started so far
Started == BagCardinality(completed) + Cardinality({a \in Acquirers : acquirers[a].pc # "idle"})

\* a caller starts acquire(), or a suspended caller is resumed, and runs to
\* its next await or to its return (lines 22-37)
Acquire(a) ==
    /\ \/ acquirers[a].pc = "idle" /\ Started < MaxAcquires
       \/ acquirers[a].pc = "waiting" /\ ~locked(bucket)
    /\ IF locked(bucket)
       THEN /\ acquirers' = [acquirers EXCEPT ![a].pc = "waiting"]
            /\ UNCHANGED <<bucket, completed>>
       ELSE LET b == Refill(bucket, now)
            IN IF b.tokens < TicksPerToken
               THEN /\ bucket' = [b EXCEPT !.lock = a]
                    /\ acquirers' = [acquirers EXCEPT ![a] =
                                       [pc |-> "sleeping", wake_at |-> now + wait_time(b)]]
                    /\ UNCHANGED completed
               ELSE /\ bucket' = [b EXCEPT !.tokens = @ - TicksPerToken]
                    /\ acquirers' = [acquirers EXCEPT ![a] = [pc |-> "idle", wake_at |-> 0]]
                    /\ completed' = completed (+) SetToBag({now})
    /\ UNCHANGED <<now, resolverVars, dexVars, normalizeVars, registryVars, scoreVars, statsVars, priceVars, cancelVars>>

\* the sleep of a throttled caller ends (lines 34-35): tokens = 0, the lock
\* is released and acquire() returns
Wake(a) ==
    /\ acquirers[a].pc = "sleeping"
    /\ now >= acquirers[a].wake_at
    /\ bucket' = [bucket EXCEPT !.tokens = 0,
                                !.lock = IF @ = a THEN "free" ELSE @]
    /\ acquirers' = [acquirers EXCEPT ![a] = [pc |-> "idle", wake_at |-> 0]]
    /\ completed' = completed (+) SetToBag({now})
    /\ UNCHANGED <<now, resolverVars, dexVars, normalizeVars, registryVars, scoreVars, statsVars, priceVars, cancelVars>>

\* the clock advances
TickLimiter ==
    /\ now < MaxLimiterTime
    /\ now' = now + 1
    /\ UNCHANGED <<limiterVars, resolverVars, dexVars, normalizeVars, registryVars, scoreVars, statsVars, priceVars, cancelVars>>

NextLimiter ==
    \/ \E a \in Acquirers : Acquire(a)
    \/ \E a \in Acquirers : Wake(a)
    \/ TickLimiter

SpecLimiter == Init /\ [][NextLimiter]_allVars

\* acquire() calls completed at the ticks from..to
RECURSIVE CompletedIn(_, _)
CompletedIn(from, to) ==
    IF from > to THEN 0 ELSE CopiesIn(from, completed) + CompletedIn(from + 1, to)

\* C15: for a bucket of capacity C no more than C acquire() calls complete
\* within any rolling window of 60 seconds.
C15_AtMostCapacityPerMinute ==
    \A from \in 0..now :
      CompletedIn(from, Min(now, from + Minute - 1)) <= requests_per_minute

\* C16: concurrent acquirers of one bucket are serialized: from the moment an
\* acquire() reads T until it has updated T and returned, sleeping included,
\* it holds the lock, no other acquirer reads or writes the bucket, and no two
\* calls complete on the same read of T.
C16_AcquirersSerialized ==
    [][ /\ \A a \in Acquirers :
             /\ acquirers'[a].pc = "sleeping" => bucket'.lock = a
             /\ acquirers[a].pc = "sleeping"
                => /\ \A other \in Acquirers \ {a} :
                        /\ acquirers'[other].pc # "sleeping"
                        /\ acquirers'[other].pc = "idle" => acquirers[other].pc = "idle"
                   /\ completed' # completed => acquirers'[a].pc = "idle"
                   /\ bucket' # bucket
                      => /\ acquirers'[a].pc = "idle"
                         /\ bucket' = [bucket EXCEPT !.tokens = 0, !.lock = "free"]
        /\ BagCardinality(completed') <= BagCardinality(completed) + 1
      ]_allVars

C16_Witness ==
    \E a, other \in Acquirers :
      /\ acquirers[a].pc = "sleeping"
      /\ bucket.lock = a
      /\ acquirers[other].pc = "waiting"

\* ================================================ normalize_chain_id
\* normalize_chain_id applied to a caller's string, and to its own result

InitChain ==
    /\ InitResolver
    /\ InitDex
    /\ InitLimiter
    /\ InitRegistry
    /\ InitCancel
    /\ InitPrice
    /\ InitStats
    /\ InitScore
    /\ chain_input \in ChainStrings
    /\ normalized = None

\* the call normalize_chain_id(chain_input)
Normalize ==
    /\ normalized = None
    /\ normalized' = normalize_chain_id(chain_input)
    /\ UNCHANGED <<chain_input, now, resolverVars, dexVars, limiterVars, registryVars, scoreVars, statsVars, priceVars, cancelVars>>

\* the result of a call is passed to the next call
Renormalize ==
    /\ normalized # None
    /\ normalized.ok
    /\ normalized.value # chain_input
    /\ chain_input' = normalized.value
    /\ normalized' = None
    /\ UNCHANGED <<now, resolverVars, dexVars, limiterVars, registryVars, scoreVars, statsVars, priceVars, cancelVars>>

NextNormalize == Normalize \/ Renormalize

SpecNormalize == InitChain /\ [][NextNormalize]_allVars

\* the canonical chain of a chain name or of an alias
Canonical(word) == IF word \in DOMAIN CHAIN_ALIASES THEN CHAIN_ALIASES[word] ELSE word

\* C13: normalize lowercases and trims its input, maps every alias to its
\* canonical chain and every canonical name, in any letter case, to itself,
\* returns only canonical chains, is idempotent, and fails with
\* InvalidChainError for empty input and for every input that is no spelling
\* of an alias or of a canonical chain.
C13_Normalize ==
    normalized # None
    => /\ \A word \in DEXSCREENER_CHAINS \cup DOMAIN CHAIN_ALIASES :
            chain_input \in Spellings(word) => normalized = Return(Canonical(word))
       /\ normalized.ok
          => /\ normalized.value \in DEXSCREENER_CHAINS
             /\ normalize_chain_id(normalized.value) = normalized
       /\ chain_input = <<>> => normalized = InvalidChainError
       /\ (\A word \in DEXSCREENER_CHAINS \cup DOMAIN CHAIN_ALIASES :
             chain_input \notin Spellings(word))
          => normalized = InvalidChainError

C13_Witness ==
    /\ normalized # None
    /\ chain_input = <<"\t", " ", "M", "A", "T", "I", "C", " ">>
    /\ normalized = Return(<<"p", "o", "l", "y", "g", "o", "n">>)

\* ================================================ entry points
\* get_contract_address and get_pair_contracts called by one caller at a
\* time, with native symbols, unknown chains and malformed pairs among the
\* inputs.  get_pair_contracts awaits the base token's resolution and then
\* the quote token's; the step between the two is QuoteCall.

\* str.split(sep): the parts of str between the separators
RECURSIVE split(_, _)
split(str, sep) ==
    IF \A i \in 1..Len(str) : str[i] # sep
    THEN <<str>>
    ELSE LET first == CHOOSE i \in 1..Len(str) :
                        str[i] = sep /\ \A j \in 1..(i - 1) : str[j] # sep
         IN <<SubSeq(str, 1, first - 1)>> \o split(SubSeq(str, first + 1, Len(str)), sep)

\* the string a sequence of characters spells, for the parts of the pairs below
Word(chars) ==
    CASE chars = <<"U", "S", "D", "T">> -> "USDT"
      [] chars = <<"u", "s", "d", "t">> -> "usdt"
      [] chars = <<"E", "T", "H">> -> "ETH"
      [] chars = <<"e", "t", "h">> -> "eth"
      [] chars = <<>> -> ""
      [] OTHER -> "?"

\* the pair strings get_pair_contracts is called with
PairInputs ==
    {<<"U", "S", "D", "T", "/", "E", "T", "H">>,
     <<"u", "s", "d", "t", "/", "e", "t", "h">>,
     <<"U", "S", "D", "T", "E", "T", "H">>,
     <<"A", "/", "B", "/", "C">>,
     <<"U", "S", "D", "T", "/">>,
     <<"/", "E", "T", "H">>,
     <<"/">>,
     <<>>}

\* the (symbol, chain) arguments get_contract_address is called with: the
\* native symbol of every chain of NATIVE_TOKENS in two spellings, and a
\* token on a chain that is neither a chain nor an alias
EntryCalls ==
    {<<"eth", "Ethereum">>, <<"ETH", "ethereum">>, <<"Eth", "ETHEREUM">>,
     <<"bnb", "BSC">>, <<"BNB", "bsc">>,
     <<"matic", "Polygon">>, <<"MATIC", "polygon">>,
     <<"avax", "Avalanche">>, <<"AVAX", "avalanche">>,
     <<"ftm", "Fantom">>, <<"FTM", "fantom">>,
     <<"eth", "Arbitrum">>, <<"ETH", "arbitrum">>,
     <<"eth", "Optimism">>, <<"ETH", "optimism">>,
     <<"eth", "Base">>, <<"ETH", "base">>,
     <<"usdt", "Foo">>}

\* the chain arguments get_pair_contracts is called with
PairChains == {"Ethereum"}

\* chain strings that are neither a canonical chain nor an alias
UnknownChains == {"Foo"}

\* the one caller
EntryTasks == {"t1"}

\* get_pair_contracts up to its first await, its return or its raise (lines
\* 170-178)
PairCall(t, pair, blockchain_in) ==
    /\ tasks[t].pc = "idle"
    /\ metrics.total_requests + 1 < MaxRequests
    /\ LET parts == split(pair, "/")
       IN IF Len(parts) # 2
          THEN /\ returned' = [IdleTask EXCEPT !.stage = "parse",
                                               !.pair = pair,
                                               !.error = "InvalidPairFormat"]
               /\ UNCHANGED <<now, contract_addresses, api_call_logs,
                              failed_contract_lookups, db_faults, metrics, tasks,
                              api_resolved>>
               /\ UNCHANGED <<dexVars, limiterVars, normalizeVars, registryVars, scoreVars, statsVars, priceVars, cancelVars>>
          ELSE Enter(t, [IdleTask EXCEPT !.stage = "base",
                                         !.pair = pair,
                                         !.quote_symbol = Upper(Word(parts[2]))],
                     Upper(Word(parts[1])), blockchain_in, FALSE)

\* get_pair_contracts from the return of the base token's resolution to the
\* next await or to its return (lines 179-186)
QuoteCall(t) ==
    /\ tasks[t].pc = "pair_quote"
    /\ Enter(t, [IdleTask EXCEPT !.stage = "quote",
                                 !.pair = tasks[t].pair,
                                 !.quote_symbol = tasks[t].quote_symbol,
                                 !.base_token = tasks[t].base_token],
             tasks[t].quote_symbol, tasks[t].blockchain, FALSE)

NextEntry ==
    \/ \E t \in EntryTasks, call \in EntryCalls, force_refresh \in BOOLEAN :
         Call(t, call[1], call[2], force_refresh)
    \/ \E t \in EntryTasks, pair \in PairInputs, blockchain_in \in PairChains :
         PairCall(t, pair, blockchain_in)
    \/ \E t \in EntryTasks : QuoteCall(t)
    \/ \E t \in EntryTasks : CoinGeckoSearch(t)
    \/ \E t \in EntryTasks : CoinGeckoContract(t)
    \/ \E t \in EntryTasks : OneInchSearch(t)
    \/ \E t \in EntryTasks : DexScreenerSearch(t)
    \/ Tick

SpecEntry == Init /\ [][NextEntry]_allVars

\* the resolution a step entered get_contract_address with: suspended in a
\* provider call, kept by get_pair_contracts, or already returned
Entered ==
    IF \E t \in Tasks : tasks'[t] # tasks[t] /\ tasks'[t].pc # "idle"
    THEN tasks'[CHOOSE t \in Tasks : tasks'[t] # tasks[t] /\ tasks'[t].pc # "idle"]
    ELSE returned'

\* what get_contract_address returned in that step, None when it is suspended
EnteredResult ==
    IF Entered.pc = "pair_quote" THEN Entered.base_token ELSE Entered.result

\* C11: resolving the native symbol of a chain that has one, in any letter
\* case, returns contract = null with source 'native' and neither consults the
\* cache, nor calls a provider, nor writes a cache, call-log or FailedLookup
\* record; hence whenever resolvePair("USDT/ETH", "ethereum") returns a
\* result its quote_token has contract null and source 'native'.
C11_NativeShortCircuit ==
    [][ /\ (/\ CallStep
            /\ Entered.blockchain \in DOMAIN NATIVE_TOKENS
            /\ Entered.token_symbol = NATIVE_TOKENS[Entered.blockchain])
           => /\ EnteredResult = [symbol |-> Entered.token_symbol,
                                  contract |-> "NULL",
                                  blockchain |-> Entered.blockchain,
                                  source |-> "native"]
              /\ Entered.pc \in {"idle", "pair_quote"}
              /\ Entered.started = <<>>
              /\ UNCHANGED <<contract_addresses, api_call_logs, failed_contract_lookups,
                             db_faults>>
              /\ metrics'.cache_hits = metrics.cache_hits
              /\ metrics'.cache_misses = metrics.cache_misses
        /\ (/\ returned' # returned
            /\ returned'.stage = "quote"
            /\ returned'.error = "none"
            /\ returned'.pair \in {<<"U", "S", "D", "T", "/", "E", "T", "H">>,
                                   <<"u", "s", "d", "t", "/", "e", "t", "h">>}
            /\ returned'.blockchain = "ethereum")
           => /\ returned'.result.contract = "NULL"
              /\ returned'.result.source = "native"
              /\ returned'.base_token # None
      ]_allVars

C11_Witness ==
    /\ returned.stage = "quote"
    /\ returned.pair = <<"U", "S", "D", "T", "/", "E", "T", "H">>
    /\ returned.result # None
    /\ returned.result.source = "native"
    /\ returned.base_token # None
    /\ returned.base_token.source = "api"
    /\ failed_contract_lookups = EmptyBag

\* a pair string that is not two non-empty parts around exactly one '/'
Malformed(pair) ==
    LET separators == {i \in 1..Len(pair) : pair[i] = "/"}
    IN \/ Cardinality(separators) # 1
       \/ 1 \in separators
       \/ Len(pair) \in separators

\* C12: resolvePair fails with the invalid-pair-format error, before
\* resolving either token, whenever the pair string is not two non-empty
\* parts around exactly one '/'.
C12_MalformedPairRejected ==
    /\ \A t \in Tasks : tasks[t].stage # "direct" => ~Malformed(tasks[t].pair)
    /\ (returned.stage # "direct" /\ Malformed(returned.pair))
       => /\ returned.error = "InvalidPairFormat"
          /\ returned.stage = "parse"
          /\ returned.base_token = None
          /\ returned.result = None

\* C14: resolveContract and resolvePair with a chain string that is neither
\* a canonical chain nor an alias are rejected with InvalidChainError: no
\* provider is called and no cache or FailedLookup record is written under
\* that chain string.
C14_UnknownChainRejected ==
    \A chain \in {Lower(c) : c \in UnknownChains} :
      /\ \A t \in Tasks : tasks[t].pc = "idle" \/ tasks[t].blockchain # chain
      /\ \A r \in BagToSet(contract_addresses) : r.blockchain # chain
      /\ \A r \in BagToSet(failed_contract_lookups) : r.blockchain # chain
      /\ returned.blockchain = chain
         => /\ returned.error = "InvalidChainError"
            /\ returned.started = <<>>

\* ========================================================= TokenRegistry
\* add_token coroutines of one process sharing one registry.  The only
\* suspension point of add_token is the price fetch: _verify_token awaits
\* nothing, so the code after the fetch runs without interruption.

\* add_token from its call to the price fetch (lines 97-108)
AddToken(a, chain_id, address, verify) ==
    /\ adders[a].pc = "idle"
    /\ add_calls < MaxAdds
    /\ add_calls' = add_calls + 1
    /\ LET key == make_key(chain_id, address)
       IN IF already_registered(key, tokens_by_key)
          THEN /\ added' = AddResult(chain_id, address, verify, FALSE, "none",
                                     tokens_by_key[key])
               /\ UNCHANGED adders
          ELSE IF key \in scam_tokens
          THEN /\ added' = AddResult(chain_id, address, verify, FALSE,
                                     "ScamTokenError", None)
               /\ UNCHANGED adders
          ELSE /\ adders' = [adders EXCEPT ![a] =
                               [pc |-> "get_token_price", chain_id |-> chain_id,
                                address |-> address, verify |-> verify]]
               /\ UNCHANGED added
    /\ UNCHANGED <<tokens_by_key, addresses_by_symbol, scam_tokens, resolved>>
    /\ UNCHANGED <<now, resolverVars, dexVars, limiterVars, normalizeVars, scoreVars, statsVars, priceVars, cancelVars>>

\* add_token from the answer of the price fetch to its end (lines 108-158)
PriceFetched(a, answer) ==
    LET chain_id == adders[a].chain_id
        address == adders[a].address
        verify == adders[a].verify
        key == make_key(chain_id, address)
    IN
    /\ adders[a].pc = "get_token_price"
    /\ adders' = [adders EXCEPT ![a] = IdleAdder]
    /\ IF answer = PriceError
       THEN /\ added' = AddResult(chain_id, address, verify, TRUE, "DexScreenerError", None)
            /\ UNCHANGED <<tokens_by_key, addresses_by_symbol, scam_tokens>>
       ELSE IF answer = None
       THEN /\ added' = AddResult(chain_id, address, verify, TRUE, "NoDataError", None)
            /\ UNCHANGED <<tokens_by_key, addresses_by_symbol, scam_tokens>>
       ELSE LET verified == IF verify THEN _verify_token(answer) ELSE Unverified
                flags == check_whitelist(key,
                             [is_verified |-> verified.is_verified,
                              is_scam |-> verified.is_scam,
                              scam_reason |-> verified.scam_reason])
                token == VerifiedToken(chain_id, address, answer, flags, key)
            IN /\ added' = AddResult(chain_id, address, verify, TRUE, "none", token)
               /\ IF token.is_scam
                  THEN /\ scam_tokens' = scam_tokens \cup {key}
                       /\ UNCHANGED <<tokens_by_key, addresses_by_symbol>>
                  ELSE /\ tokens_by_key' = (key :> token) @@ tokens_by_key
                       /\ addresses_by_symbol' =
                              append_address(addresses_by_symbol,
                                             symbol_key(chain_id, token.symbol),
                                             lower(address))
                       /\ UNCHANGED scam_tokens
    /\ UNCHANGED <<resolved, add_calls>>
    /\ UNCHANGED <<now, resolverVars, dexVars, limiterVars, normalizeVars, scoreVars, statsVars, priceVars, cancelVars>>

\* one call of resolve_symbol, which awaits nothing (lines 236-268)
ResolveSymbol(chain_id, symbol) ==
    /\ resolved' = [chain_id |-> chain_id, symbol |-> symbol,
                    result |-> resolve_symbol(chain_id, symbol, tokens_by_key,
                                              addresses_by_symbol)]
    /\ UNCHANGED <<tokens_by_key, addresses_by_symbol, scam_tokens, adders, added, add_calls>>
    /\ UNCHANGED <<now, resolverVars, dexVars, limiterVars, normalizeVars, scoreVars, statsVars, priceVars, cancelVars>>

NextRegistry ==
    \/ \E a \in Adders, chain_id \in RegistryChains, address \in RegistryAddresses,
          verify \in BOOLEAN : AddToken(a, chain_id, address, verify)
    \/ \E a \in Adders, answer \in PriceAnswers : PriceFetched(a, answer)
    \/ \E chain_id \in RegistryChains, symbol \in RegistrySymbols :
          ResolveSymbol(chain_id, symbol)

SpecRegistry == Init /\ [][NextRegistry]_allVars

\* the identity of a token in the registry: lower(chain):lower(address)
TokenKey(chain, address) ==
    [i \in 1..Len(chain) |-> LowerChar(chain[i])] \o <<":">>
    \o [i \in 1..Len(address) |-> LowerChar(address[i])]

\* an add_token call starts in this step
AddBegins == add_calls' # add_calls

\* the arguments of the add_token call that starts in this step
Begun ==
    IF \E a \in Adders : adders'[a] # adders[a]
    THEN adders'[CHOOSE a \in Adders : adders'[a] # adders[a]]
    ELSE added'

\* the add_token coroutine a receives the answer of its price fetch
FetchEndsFor(a) == adders[a].pc = "get_token_price" /\ adders'[a].pc = "idle"

\* C21: addToken for a key already in the primary index returns the existing
\* record without fetching a price snapshot and without changing the primary
\* index, the symbol index or the scam set, so repeating the call yields the
\* same record and the same registry state as calling it once.
C21_RegisteredIsIdempotent ==
    [][ (/\ AddBegins
         /\ TokenKey(Begun.chain_id, Begun.address) \in DOMAIN tokens_by_key)
        => /\ adders' = adders
           /\ added'.fetched = FALSE
           /\ added'.error = "none"
           /\ added'.token = tokens_by_key[TokenKey(Begun.chain_id, Begun.address)]
           /\ UNCHANGED <<tokens_by_key, addresses_by_symbol, scam_tokens>>
      ]_allVars

C21_Witness ==
    /\ add_calls = 2
    /\ added # None
    /\ added.fetched = FALSE
    /\ added.error = "none"
    /\ added.token # None
    /\ added.address = <<"0", "x", "A", "b">>
    /\ added.token.chain_id # added.chain_id
    /\ Cardinality(DOMAIN tokens_by_key) = 1
    /\ scam_tokens = {}

\* C22: once a key is on the scam set, every later addToken for that key,
\* with verify true or false, fails with ScamTokenError without fetching a
\* price snapshot, and the key never enters the primary index afterwards.
C22_ScamKeyStaysOut ==
    [][ \A key \in scam_tokens :
          /\ key \notin DOMAIN tokens_by_key'
          /\ (AddBegins /\ TokenKey(Begun.chain_id, Begun.address) = key)
             => /\ adders' = adders
                /\ added'.fetched = FALSE
                /\ added'.error = "ScamTokenError"
      ]_allVars

\* C24: for a key on the static whitelist, addToken with a price snapshot
\* available always yields a record with is_verified = true and is_scam =
\* false and registers it in the primary index, whatever the score and
\* whether or not verify is requested; a whitelisted key is never added to
\* the scam set.
C24_WhitelistOverrides ==
    [][ /\ scam_tokens' \cap whitelist = {}
        /\ \A a \in Adders :
             (/\ FetchEndsFor(a)
              /\ TokenKey(adders[a].chain_id, adders[a].address) \in whitelist
              /\ added'.error \notin {"NoDataError", "DexScreenerError"})
             => /\ added'.error = "none"
                /\ added'.token # None
                /\ added'.token.is_verified
                /\ ~added'.token.is_scam
                /\ TokenKey(adders[a].chain_id, adders[a].address) \in DOMAIN tokens_by_key'
                /\ tokens_by_key'[TokenKey(adders[a].chain_id, adders[a].address)]
                     = added'.token
      ]_allVars

C24_Witness ==
    /\ added # None
    /\ added.fetched
    /\ added.verify
    /\ added.token # None
    /\ added.token.unique_key \in whitelist
    /\ added.token.liquidity_usd = 50000
    /\ added.token.is_verified
    /\ added.token.unique_key \in DOMAIN tokens_by_key

\* C25: in every reachable state of the TokenRegistry, including states
\* reached by interleaved addToken calls for the same key, no key is both on
\* the scam set and in the primary index, and every record in the primary
\* index has is_scam = false.
C25_ScamAndPrimaryDisjoint ==
    /\ scam_tokens \cap DOMAIN tokens_by_key = {}
    /\ \A key \in DOMAIN tokens_by_key : ~tokens_by_key[key].is_scam

\* the tokens registered under a chain and a symbol
Candidates(chain, symbol) ==
    {token \in {tokens_by_key[key] : key \in DOMAIN tokens_by_key} :
       /\ [i \in 1..Len(token.chain_id) |-> LowerChar(token.chain_id[i])]
            = [i \in 1..Len(chain) |-> LowerChar(chain[i])]
       /\ upper(token.symbol) = upper(symbol)}

\* C26: resolveSymbol(chain, symbol) returns nothing when no token is
\* registered under that chain and symbol; otherwise it returns a registered
\* token of that chain and symbol whose liquidity_usd is the maximum over
\* all candidates registered under it.
C26_ResolveSymbolMostLiquid ==
    [][ resolved' # resolved
        => LET found == Candidates(resolved'.chain_id, resolved'.symbol)
           IN IF found = {}
              THEN resolved'.result = None
              ELSE /\ resolved'.result \in found
                   /\ \A token \in found :
                        token.liquidity_usd <= resolved'.result.liquidity_usd
      ]_allVars

\* C29: the TokenRegistry identifies a token only by the key
\* lower(chain):lower(address): addToken calls whose chain and address
\* differ only in letter case refer to one and the same record, while tokens
\* that share a symbol but live on different chains or at different
\* addresses are distinct records with distinct unique_key values.
C29_IdentityIsChainAndAddress ==
    [][ /\ \A k1 \in DOMAIN tokens_by_key', k2 \in DOMAIN tokens_by_key' :
             /\ tokens_by_key'[k1].unique_key = k1
             /\ k1 = TokenKey(tokens_by_key'[k1].chain_id, tokens_by_key'[k1].address)
             /\ (tokens_by_key'[k1].unique_key = tokens_by_key'[k2].unique_key) <=> (k1 = k2)
        /\ (added' # added /\ added'.error = "none")
           => /\ added'.token.unique_key = TokenKey(added'.chain_id, added'.address)
              /\ ~added'.token.is_scam
                 => /\ added'.token.unique_key \in DOMAIN tokens_by_key'
                    /\ tokens_by_key'[added'.token.unique_key] = added'.token
      ]_allVars

C29_Witness ==
    /\ added # None
    /\ added.error = "none"
    /\ added.fetched
    /\ added.address = <<"0", "x", "A", "b">>
    /\ \E k1 \in DOMAIN tokens_by_key, k2 \in DOMAIN tokens_by_key :
         /\ k1 # k2
         /\ tokens_by_key[k1].symbol = tokens_by_key[k2].symbol
         /\ tokens_by_key[k1].address = tokens_by_key[k2].address
         /\ tokens_by_key[k1].chain_id = <<"E", "t", "h", "e", "r", "e", "u", "m">>
         /\ tokens_by_key[k2].chain_id = <<"b", "s", "c">>

\* ================================================== token verification
\* _verify_token as a function of the price snapshot it is given

\* the snapshots scored: values on both sides of every threshold
ScoreLiquidities == {0, 50000, 99999, 100000, 1000000}
ScoreVolumes == {0, 500, 9999, 10000, 50000, 1000000}
ScorePrices == {Price(0, 0), Price(1, -6), Price(2, -6), Price(1, 0), Price(9, 5), Price(1, 6)}
ScoreDexIds == {"unknown", "uniswap"}
ScoreInputs ==
    {TokenPrice(<<"U", "S", "D", "C">>, price_usd, liquidity_usd, volume_24h, dex_id) :
       price_usd \in ScorePrices, liquidity_usd \in ScoreLiquidities,
       volume_24h \in ScoreVolumes, dex_id \in ScoreDexIds}

InitVerify ==
    /\ InitResolver
    /\ InitDex
    /\ InitLimiter
    /\ InitNormalize
    /\ InitRegistry
    /\ InitCancel
    /\ InitPrice
    /\ InitStats
    /\ token_data \in ScoreInputs
    /\ verification = None

\* the call _verify_token(chain_id, address, token_data)
VerifyToken ==
    /\ verification = None
    /\ verification' = _verify_token(token_data)
    /\ UNCHANGED <<token_data, now, resolverVars, dexVars, limiterVars, normalizeVars,
                   registryVars, statsVars, priceVars, cancelVars>>

NextVerify == VerifyToken

SpecVerify == InitVerify /\ [][NextVerify]_allVars

\* the checks a snapshot passes, as the specification lists them
PassedChecks(data) ==
    {check \in {"liquidity", "volume", "ratio", "price", "dex_id"} :
       \/ check = "liquidity" /\ data.liquidity_usd >= 100000
       \/ check = "volume" /\ data.volume_24h >= 10000
       \/ /\ check = "ratio"
          /\ data.volume_24h # 0
          /\ data.volume_24h < 10 * data.liquidity_usd
          /\ data.liquidity_usd < 100 * data.volume_24h
       \/ check = "price" /\ data.price_usd \in {Price(2, -6), Price(1, 0), Price(9, 5)}
       \/ check = "dex_id" /\ data.dex_id # "unknown"}

\* C23: with verification requested the score is the number of passed checks
\* among liquidity >= 100000, volume >= 10000, ratio strictly between 0.1 and
\* 100, price strictly between 1e-6 and 1e6, dex_id present; is_verified iff
\* the score is at least 4 and is_scam iff it is at most 2, so no snapshot
\* is both and a score of 3 gives neither; liquidity 50k with volume 500 is
\* a scam and liquidity 1M, volume 50k, price 1, dex_id set is verified.
C23_VerificationScore ==
    verification # None
    => LET score == Cardinality(PassedChecks(token_data))
       IN /\ verification.checks_passed = score
          /\ verification.is_verified <=> score >= 4
          /\ verification.is_scam <=> score <= 2
          /\ ~(verification.is_verified /\ verification.is_scam)
          /\ score = 3 => ~verification.is_verified /\ ~verification.is_scam
          /\ (token_data.liquidity_usd = 50000 /\ token_data.volume_24h = 500)
             => verification.is_scam
          /\ (/\ token_data.liquidity_usd = 1000000
              /\ token_data.volume_24h = 50000
              /\ token_data.price_usd = Price(1, 0)
              /\ token_data.dex_id # "unknown")
             => verification.is_verified

C23_Witness ==
    /\ verification # None
    /\ verification.checks_passed = 3
    /\ ~verification.is_verified
    /\ ~verification.is_scam
    /\ token_data.liquidity_usd = 1000000
    /\ token_data.volume_24h = 500

\* =========================================================== statistics
\* get_api_stats called between the steps of the resolutions

\* one call of get_api_stats, which awaits nothing (lines 364-436)
GetApiStats(hours) ==
    /\ api_stats' = [hours |-> hours,
                     stats |-> get_api_stats(hours, api_call_logs, metrics, now)]
    /\ UNCHANGED <<vars, dexVars, limiterVars, normalizeVars, registryVars, scoreVars, priceVars, cancelVars>>

NextStats ==
    \/ \E t \in Tasks, symbol_in \in SymbolInputs, blockchain_in \in ChainInputs,
          force_refresh \in BOOLEAN :
         Call(t, symbol_in, blockchain_in, force_refresh)
    \/ \E t \in Tasks : CoinGeckoSearch(t)
    \/ \E t \in Tasks : CoinGeckoContract(t)
    \/ \E t \in Tasks : OneInchSearch(t)
    \/ \E t \in Tasks : DexScreenerSearch(t)
    \/ Tick
    \/ \E hours \in StatsLookbacks : GetApiStats(hours)

SpecStats == Init /\ [][NextStats]_allVars

\* C27: after any sequence of resolutions, getApiStats(hoursLookback) returns
\* total_calls equal to the number of call-log records whose timestamp lies
\* within the lookback window, with successful_calls + failed_calls =
\* total_calls and per-provider totals summing to total_calls, together with
\* the resolver's cache_hits, cache_misses and api_calls_saved counters.
C27_ApiStatsCountTheLog ==
    [][ api_stats' # api_stats
        => LET stats == api_stats'.stats
               window == {r \in BagToSet(api_call_logs) :
                            r.called_at >= now - api_stats'.hours}
               in_window == BagCardinality([r \in window |-> CopiesIn(r, api_call_logs)])
               by_provider == [api \in DOMAIN stats.by_api |-> stats.by_api[api].total]
           IN /\ stats.total_calls = in_window
              /\ stats.successful_calls + stats.failed_calls = stats.total_calls
              /\ BagCardinality(by_provider) = stats.total_calls
              /\ {"cache_hits", "cache_misses", "api_calls_saved"} \subseteq DOMAIN stats
              /\ stats.cache_hits = metrics.cache_hits
              /\ stats.cache_misses = metrics.cache_misses
              /\ stats.api_calls_saved = metrics.cache_hits
      ]_allVars

\* ================================================ the price cache
\* get_token_pairs coroutines of one DexScreenerClient sharing its cache.
\* The only suspension point of get_token_pairs is the await of _fetch.

\* get_token_pairs from its call to the await of _fetch (lines 305-321)
GetTokenPairs(l, chain, token_address) ==
    /\ lookups[l].pc = "idle"
    /\ price_metrics.cache_hits + price_metrics.cache_misses < MaxLookups
    /\ LET chain_id == normalize_chain_id(chain)
           cache_key == make_unique_key(chain_id.value, token_address)
       IN IF ~chain_id.ok
          THEN /\ looked' = LookupResult(chain, token_address, FALSE, FALSE,
                                         "InvalidChainError", <<>>)
               /\ UNCHANGED <<price_metrics, lookups>>
          ELSE IF /\ cache_key \in DOMAIN price_cache
                  /\ is_fresh(price_cache[cache_key].time, now)
          THEN /\ price_metrics' = [price_metrics EXCEPT !.cache_hits = @ + 1]
               /\ looked' = LookupResult(chain, token_address, TRUE, FALSE, "none",
                                         <<price_cache[cache_key].data>>)
               /\ UNCHANGED lookups
          ELSE /\ price_metrics' = [price_metrics EXCEPT !.cache_misses = @ + 1]
               /\ lookups' = [lookups EXCEPT ![l] =
                                [pc |-> "_fetch", chain |-> chain,
                                 token_address |-> token_address,
                                 chain_normalized |-> chain_id.value,
                                 cache_key |-> cache_key]]
               /\ UNCHANGED looked
    /\ UNCHANGED <<price_cache, now, resolverVars, dexVars, limiterVars, normalizeVars,
                   registryVars, scoreVars, statsVars, cancelVars>>

\* get_token_pairs from the answer of _fetch to its end (lines 321-370)
PairsFetched(l, answer) ==
    LET lk == lookups[l]
        errors == price_metrics.chain_errors
        counted == (lk.chain_normalized :>
                      (IF lk.chain_normalized \in DOMAIN errors
                       THEN errors[lk.chain_normalized] ELSE 0) + 1) @@ errors
    IN
    /\ lk.pc = "_fetch"
    /\ lookups' = [lookups EXCEPT ![l] = IdleLookup]
    /\ IF answer = FetchError \/ answer.pairs = <<>>
       THEN /\ looked' = LookupResult(lk.chain, lk.token_address, FALSE, TRUE,
                                      IF answer = FetchError THEN "DexScreenerError"
                                      ELSE "NoLiquidityError", <<>>)
            /\ price_metrics' = [price_metrics EXCEPT !.chain_errors = counted]
            /\ UNCHANGED price_cache
       ELSE LET results == sort_by_liquidity(
                               pairs_on_chain(answer.pairs, lk.chain_normalized,
                                              lk.token_address, lk.cache_key, now))
            IN /\ looked' = LookupResult(lk.chain, lk.token_address, FALSE, TRUE, "none",
                                         results)
               /\ price_cache' =
                      IF results # <<>>
                      THEN (lk.cache_key :> [data |-> results[1], time |-> now]) @@ price_cache
                      ELSE price_cache
               /\ UNCHANGED price_metrics
    /\ UNCHANGED <<now, resolverVars, dexVars, limiterVars, normalizeVars,
                   registryVars, scoreVars, statsVars, cancelVars>>

\* the clock advances
TickPrice ==
    /\ now < MaxPriceTime
    /\ now' = now + 1
    /\ UNCHANGED <<priceVars, resolverVars, dexVars, limiterVars, normalizeVars,
                   registryVars, scoreVars, statsVars, cancelVars>>

NextPrice ==
    \/ \E l \in Lookers, chain \in PriceChains, token_address \in PriceAddresses :
          GetTokenPairs(l, chain, token_address)
    \/ \E l \in Lookers, answer \in PairsAnswers : PairsFetched(l, answer)
    \/ TickPrice

SpecPrice == Init /\ [][NextPrice]_allVars

\* the cache entry a lookup refers to: the normalized chain and the address
\* without its letter case
PriceKey(chain, token_address) ==
    Canonical([i \in 1..Len(chain) |-> LowerChar(chain[i])]) \o <<":">>
    \o [i \in 1..Len(token_address) |-> LowerChar(token_address[i])]

\* a price lookup starts in this step
LookupBegins ==
    price_metrics'.cache_hits + price_metrics'.cache_misses
      # price_metrics.cache_hits + price_metrics.cache_misses

\* the arguments of the lookup that starts in this step
BegunLookup ==
    IF \E l \in Lookers : lookups'[l] # lookups[l]
    THEN lookups'[CHOOSE l \in Lookers : lookups'[l] # lookups[l]]
    ELSE looked'

\* C28: after a price lookup has succeeded with at least one pair on the
\* requested chain, every further lookup for the same normalized chain and
\* the same address, compared case-insensitively, made less than the TTL
\* (300 seconds) later returns the cached most-liquid snapshot, increments
\* cache_hits and issues no network request; a lookup made a TTL or more
\* after the entry was written fetches from the provider again.
C28_PriceCacheServesWithinTtl ==
    [][ /\ LookupBegins
           => LET key == PriceKey(BegunLookup.chain, BegunLookup.token_address)
              IN IF key \in DOMAIN price_cache /\ now - price_cache[key].time < price_cache_ttl
                 THEN /\ lookups' = lookups
                      /\ looked'.hit
                      /\ ~looked'.requested
                      /\ looked'.results = <<price_cache[key].data>>
                      /\ price_metrics'.cache_hits = price_metrics.cache_hits + 1
                      /\ price_metrics'.cache_misses = price_metrics.cache_misses
                 ELSE /\ \E l \in Lookers : lookups[l].pc = "idle" /\ lookups'[l].pc = "_fetch"
                      /\ looked' = looked
                      /\ price_metrics'.cache_hits = price_metrics.cache_hits
        /\ \A l \in Lookers :
             (/\ lookups[l].pc = "_fetch"
              /\ lookups'[l].pc = "idle"
              /\ looked'.error = "none"
              /\ looked'.results # <<>>)
             => LET key == PriceKey(lookups[l].chain, lookups[l].token_address)
                IN /\ key \in DOMAIN price_cache'
                   /\ price_cache'[key].time = now
                   /\ \E i \in 1..Len(looked'.results) :
                        price_cache'[key].data = looked'.results[i]
                   /\ \A i \in 1..Len(looked'.results) :
                        looked'.results[i].liquidity_usd
                          <= price_cache'[key].data.liquidity_usd
      ]_allVars

C28_Witness ==
    /\ looked # None
    /\ looked.hit
    /\ looked.chain = <<"e", "t", "h">>
    /\ looked.token_address = <<"0", "x", "A", "b">>
    /\ looked.results[1].liquidity_usd = 9
    /\ now = looked.results[1].timestamp + 1
    /\ price_metrics.cache_hits = 1
    /\ price_metrics.cache_misses = 1

\* ------------------------------------------------- cancellation: the steps
\* _fetch_from_apis of coroutine c from the `try` of provider p to the first
\* suspension of rate_limiter.acquire(p) or, without one, to the provider call;
\* all_limiters are the buckets before
BeginAttempt(c, p, attempted, all_limiters) ==
    LET ls == get_limiter(all_limiters, p, now)
        queued == \E d \in Resolvers \ {c} :
                     resolutions[d].pc = "lock" /\ resolutions[d].provider = p
        a == enter_acquire(ls[p], c, now, queued)
    IN /\ limiters' = [ls EXCEPT ![p] = a.bucket]
       /\ resolutions' = [resolutions EXCEPT ![c] =
                            [pc |-> a.pc, provider |-> p, wake_at |-> a.wake_at,
                             attempt |-> 0, attempted |-> Append(attempted, p)]]

\* _fetch_from_apis from the end of the block of a provider to its next
\* suspension or its return.  A call-log row is written on success and in the
\* except clause; log_ok is FALSE when that insert fails
AfterBlock(c, outcome, all_limiters, log_ok) ==
    LET r == resolutions[c]
        pos == AfterAttempt(r.provider, outcome)
        logs_call == outcome \in {"found", "exception"}
    IN /\ ~logs_call => log_ok
       /\ api_call_logs' =
            IF logs_call
            THEN log_api_call(api_call_logs, r.provider, outcome = "found", log_ok, now)
            ELSE api_call_logs
       /\ db_faults' = IF logs_call THEN Faults(db_faults, log_ok) ELSE db_faults
       /\ IF pos \in {"return", "exhausted"}
          THEN /\ resolutions' = [resolutions EXCEPT ![c] = IdleResolution]
               /\ ended' = Ended(c, "none", pos = "return", r.attempted, r.pc)
               /\ limiters' = all_limiters
          ELSE /\ BeginAttempt(c, pos, r.attempted, all_limiters)
               /\ UNCHANGED ended

\* an exception of class raised appears at the suspension point of c
Raised(c, raised, all_limiters, log_ok) ==
    LET r == resolutions[c]
        then == OnRaise(r.pc, r.provider, raised)
    IN CASE then = "propagate" ->
              /\ log_ok
              /\ resolutions' = [resolutions EXCEPT ![c] = IdleResolution]
              /\ ended' = Ended(c, raised, FALSE, r.attempted, r.pc)
              /\ limiters' = all_limiters
              /\ UNCHANGED <<api_call_logs, db_faults>>
         [] then = "retry" /\ r.attempt < max_retries - 1 ->
              /\ log_ok
              /\ resolutions' = [resolutions EXCEPT ![c] =
                                   [r EXCEPT !.pc = "backoff"]]
              /\ limiters' = all_limiters
              /\ UNCHANGED <<ended, api_call_logs, db_faults>>
         [] then = "none" -> AfterBlock(c, "none", all_limiters, log_ok)
         [] OTHER -> AfterBlock(c, "exception", all_limiters, log_ok)

\* a caller starts _fetch_from_apis (lines 202-206)
BeginResolution(c) ==
    /\ resolutions[c].pc = "idle"
    /\ resolution_calls < MaxResolutions
    /\ now <= MaxCancelTime
    /\ resolution_calls' = resolution_calls + 1
    /\ BeginAttempt(c, "coingecko", <<>>, limiters)
    /\ UNCHANGED <<ended, cancels, now, resolverVars>>
    /\ UNCHANGED <<dexVars, limiterVars, normalizeVars, registryVars, scoreVars,
                   statsVars, priceVars>>

\* self.lock is free for the coroutine that waits for it (rate_limiter.py
\* line 22)
LockFreed(c) ==
    /\ resolutions[c].pc = "lock"
    /\ ~locked(limiters[resolutions[c].provider])
    /\ LET p == resolutions[c].provider
           a == enter_acquire(limiters[p], c, now, FALSE)
       IN /\ limiters' = [limiters EXCEPT ![p] = a.bucket]
          /\ resolutions' = [resolutions EXCEPT ![c] =
                               [@ EXCEPT !.pc = a.pc, !.wake_at = a.wake_at]]
    /\ UNCHANGED <<ended, cancels, resolution_calls, now, resolverVars>>
    /\ UNCHANGED <<dexVars, limiterVars, normalizeVars, registryVars, scoreVars,
                   statsVars, priceVars>>

\* the sleep of acquire ends (rate_limiter.py lines 34-35)
ThrottleEnds(c) ==
    /\ resolutions[c].pc = "throttle"
    /\ now >= resolutions[c].wake_at
    /\ limiters' = [limiters EXCEPT ![resolutions[c].provider] = leave_acquire(@)]
    /\ resolutions' = [resolutions EXCEPT ![c] = [@ EXCEPT !.pc = "call"]]
    /\ UNCHANGED <<ended, cancels, resolution_calls, now, resolverVars>>
    /\ UNCHANGED <<dexVars, limiterVars, normalizeVars, registryVars, scoreVars,
                   statsVars, priceVars>>

\* the provider call of c ends: with a contract, with none, with HTTP 429
\* (dexscreener.py lines 254-261) or with an exception
Respond(c, outcome, log_ok) ==
    /\ resolutions[c].pc \in {"call"}
    /\ outcome = "429" => resolutions[c].provider = "dexscreener"
    /\ CASE outcome \in {"found", "none"} -> AfterBlock(c, outcome, limiters, log_ok)
         [] outcome = "429" ->
              /\ log_ok
              /\ resolutions' = [resolutions EXCEPT ![c] =
                                   [@ EXCEPT !.pc = "rate_limited"]]
              /\ UNCHANGED <<limiters, ended, api_call_logs, db_faults>>
         [] OTHER -> Raised(c, outcome, limiters, log_ok)
    /\ UNCHANGED <<cancels, resolution_calls, now>>
    /\ UNCHANGED <<contract_addresses, failed_contract_lookups, metrics, tasks, returned,
                   api_resolved>>
    /\ UNCHANGED <<dexVars, limiterVars, normalizeVars, registryVars, scoreVars,
                   statsVars, priceVars>>

\* a sleep of _fetch ends (dexscreener.py lines 260-261 and 281-282), after
\* a time that is left open: the next attempt, whose limiter is the fresh one
\* of this DexScreenerClient, or the end of the loop (lines 284-291)
BackoffEnds(c, log_ok) ==
    /\ resolutions[c].pc \in {"backoff", "rate_limited"}
    /\ IF resolutions[c].attempt + 1 < max_retries
       THEN /\ log_ok
            /\ resolutions' = [resolutions EXCEPT ![c] =
                                 [@ EXCEPT !.pc = "call", !.attempt = @ + 1]]
            /\ UNCHANGED <<limiters, ended, api_call_logs, db_faults>>
       ELSE Raised(c, "DexScreenerError", limiters, log_ok)
    /\ UNCHANGED <<cancels, resolution_calls, now>>
    /\ UNCHANGED <<contract_addresses, failed_contract_lookups, metrics, tasks, returned,
                   api_resolved>>
    /\ UNCHANGED <<dexVars, limiterVars, normalizeVars, registryVars, scoreVars,
                   statsVars, priceVars>>

\* the caller's timeout cancels the task of c: CancelledError is raised at
\* the point where c is suspended, and an `async with self.lock` it is in is
\* left
Cancel(c, log_ok) ==
    /\ resolutions[c].pc # "idle"
    /\ cancels < MaxCancels
    /\ cancels' = cancels + 1
    /\ LET p == resolutions[c].provider
           ls == IF resolutions[c].pc = "throttle"
                 THEN [limiters EXCEPT ![p] = lock_on_exit(@)]
                 ELSE limiters
       IN Raised(c, "CancelledError", ls, log_ok)
    /\ UNCHANGED <<resolution_calls, now>>
    /\ UNCHANGED <<contract_addresses, failed_contract_lookups, metrics, tasks, returned,
                   api_resolved>>
    /\ UNCHANGED <<dexVars, limiterVars, normalizeVars, registryVars, scoreVars,
                   statsVars, priceVars>>

\* a tick of the clock: time passes while a call may start or the sleep of
\* an acquire lasts
TickCancel ==
    /\ \/ now < MaxCancelTime
       \/ \E c \in Resolvers :
             /\ resolutions[c].pc = "throttle"
             /\ resolutions[c].wake_at > now
    /\ now' = now + 1
    /\ UNCHANGED <<cancelVars, resolverVars>>
    /\ UNCHANGED <<dexVars, limiterVars, normalizeVars, registryVars, scoreVars,
                   statsVars, priceVars>>

\* the exceptions a provider call ends with
CallErrors == {"TimeoutError", "ClientError", "DexScreenerError"}

NextCancel ==
    \/ \E c \in Resolvers : BeginResolution(c)
    \/ \E c \in Resolvers : LockFreed(c)
    \/ \E c \in Resolvers : ThrottleEnds(c)
    \/ \E c \in Resolvers, outcome \in {"found", "none", "429"} \cup CallErrors,
          log_ok \in MayFail(db_faults) : Respond(c, outcome, log_ok)
    \/ \E c \in Resolvers, log_ok \in MayFail(db_faults) : BackoffEnds(c, log_ok)
    \/ \E c \in Resolvers, log_ok \in MayFail(db_faults) : Cancel(c, log_ok)
    \/ TickCancel

\* the event loop runs every coroutine that is ready and the clock advances
FairCancel ==
    /\ WF_allVars(TickCancel)
    /\ \A c \in Resolvers : WF_allVars(LockFreed(c)) /\ WF_allVars(ThrottleEnds(c))

SpecCancel == Init /\ [][NextCancel]_allVars /\ FairCancel


\* the suspension points of rate_limiter.acquire
InAcquire == {"lock", "throttle"}

\* C30: when a resolution is cancelled while it is suspended in a rate
\* limiter's throttling wait, in a provider call or in a retry backoff sleep,
\* the cancellation leaves _fetch_from_apis as CancelledError: no further
\* provider is attempted, no failure row is logged, and the cancelled
\* coroutine holds the lock of no bucket; and every coroutine suspended in
\* acquire() eventually leaves acquire().
C30_CancellationPropagates ==
    /\ [][cancels' = cancels + 1
          => \E c \in Resolvers :
               /\ resolutions[c].pc # "idle"
               /\ resolutions'[c] = IdleResolution
               /\ \A d \in Resolvers \ {c} : resolutions'[d] = resolutions[d]
               /\ ended' = Ended(c, "CancelledError", FALSE, resolutions[c].attempted,
                                 resolutions[c].pc)
               /\ api_call_logs' = api_call_logs
               /\ \A p \in LimitedApis :
                    limiters'[p] # None => limiters'[p].lock # c
       ]_allVars
    /\ \A c \in Resolvers :
         (resolutions[c].pc \in InAcquire) ~> (resolutions[c].pc \notin InAcquire)

C30_Witness ==
    /\ ended # None
    /\ ended.resolver = "t2"
    /\ ended.raised = "CancelledError"
    /\ ended.at = "throttle"
    /\ ended.attempted = <<"coingecko">>
    /\ resolutions["t2"].pc = "call"
    /\ resolutions["t2"].provider = "coingecko"
    /\ limiters["coingecko"].lock = "free"
    /\ cancels = 1

\* C31: an addToken call that fails, with ScamTokenError because the key is
\* on the scam set or with NoDataError because no price snapshot exists,
\* changes nothing: neither the step that starts it nor the step that ends it
\* changes the primary index, the symbol index or the scam set.
C31_FailedAddChangesNothing ==
    [][ /\ (AddBegins /\ (adders' # adders \/ added'.error = "ScamTokenError"))
           => UNCHANGED <<tokens_by_key, addresses_by_symbol, scam_tokens>>
        /\ \A a \in Adders :
             (FetchEndsFor(a) /\ added'.error \in {"ScamTokenError", "NoDataError"})
             => UNCHANGED <<tokens_by_key, addresses_by_symbol, scam_tokens>>
      ]_allVars

C31_Witness ==
    /\ added # None
    /\ added.error = "NoDataError"
    /\ added.fetched
    /\ added.token = None
    /\ Cardinality(DOMAIN tokens_by_key) = 1
    /\ DOMAIN addresses_by_symbol # {}
    /\ add_calls = 2

\* C32: in every reachable state, every record in the primary index and
\* every address listed in the symbol index belongs to a token whose
\* verification outcome is verified and non-scam.
C32_IndexedTokensAreVerified ==
    /\ \A key \in DOMAIN tokens_by_key :
         tokens_by_key[key].is_verified /\ ~tokens_by_key[key].is_scam
    /\ \A sk \in DOMAIN addresses_by_symbol :
         \A i \in 1..Len(addresses_by_symbol[sk]) :
           \E key \in DOMAIN tokens_by_key :
             /\ tokens_by_key[key].address = addresses_by_symbol[sk][i]
             /\ tokens_by_key[key].is_verified
             /\ ~tokens_by_key[key].is_scam

\* a _fetch call starts in this step
FetchBegins == cb_trace'.fetches # cb_trace.fetches

\* C33: while the breaker is open and its cooldown has not elapsed, every
\* DexScreener fetch fails at once with a provider error without acquiring a
\* rate-limiter token, without issuing a network request and without
\* changing the breaker's failure count, last-failure time or state.
C33_OpenBreakerFailsFast ==
    [][ (/\ FetchBegins
         /\ circuit_breaker.state = "open"
         /\ now - circuit_breaker.last_failure_time <= timeout_seconds)
        => /\ fetches' = fetches
           /\ fetched'.error = "CircuitOpen"
           /\ fetched'.acquires = 0
           /\ fetched'.requests = 0
           /\ circuit_breaker' = circuit_breaker
      ]_allVars

C33_Witness ==
    /\ fetched.error = "CircuitOpen"
    /\ fetched.requests = 0
    /\ circuit_breaker.state = "open"
    /\ now = circuit_breaker.last_failure_time + timeout_seconds
    /\ circuit_breaker.failures = failure_threshold

\* what _fetch raises: DexScreenerError in every case
ProviderErrors == {"CircuitOpen", "NotFound", "ApiError", "LastError", "Failed"}

C35_BackoffSchedule ==
    [][ \A f \in Fetchers :
          (fetches[f].pc = "request" /\ fetches'[f] # fetches[f])
          => /\ fetches'[f].pc = "request"
                => fetches'[f].slept = Min(2 * 2 ^ fetches[f].attempt, 30)
             /\ FetchEnds(f) => fetched'.slept = 0
      ]_allVars

\* C36: circuit-breaker state is kept per provider and persists across
\* resolutions: after the threshold (5) of consecutive failed DexScreener
\* fetches issued by successive resolveContract calls on one resolver, the
\* next resolveContract made before the cooldown elapses issues no network
\* request to DexScreener.
C36_BreakerPersistsAcrossResolutions ==
    [][ (/\ FetchBegins
         /\ cb_trace.consecutive >= failure_threshold
         /\ now - cb_trace.failed_at <= timeout_seconds)
        => /\ fetches' = fetches
           /\ fetched'.requests = 0
      ]_allVars

\* C37: for a bucket of capacity C that starts full, the number of acquire()
\* calls completed in any interval of length t never exceeds C + t*C/60, the
\* initial burst plus the refill: the token a caller had to wait for is
\* consumed by that caller and is not credited again to the next acquirer.
\* Both sides are counted in fractions of 1/TicksPerToken of a token.
C37_BurstPlusRefill ==
    \A from \in 0..now : \A to \in from..now :
      CompletedIn(from, to) * TicksPerToken
        <= requests_per_minute * TicksPerToken + (to - from)

\* C38: whenever the durable cache holds at least one valid (unexpired) row
\* for (symbol, chain), lookup(symbol, chain) returns a hit, also when an
\* older expired row for the same symbol and chain with a different contract
\* address exists: whichever row the query of get_cached_contract returns, the
\* result is a row.
C38_ValidRowIsHit ==
    \A token_symbol \in SymbolInputs, blockchain \in ChainInputs :
      (\E r \in BySymbolChain(contract_addresses, token_symbol, blockchain) :
          is_cache_valid(r, cache_ttl, now))
      => \A first \in First(BySymbolChain(contract_addresses, token_symbol, blockchain)) :
           get_cached_contract(first, TRUE, now) # None

\* C39: in every reachable state of the TokenRegistry, including states
\* reached by interleaved addToken calls for the same key that both pass the
\* already-registered check before either finishes its price fetch, each
\* address appears at most once in its chain:SYMBOL list of the symbol index
\* and every address listed there has a record in the primary index.
C39_SymbolIndexHasNoDuplicates ==
    \A sk \in DOMAIN addresses_by_symbol :
      LET listed == addresses_by_symbol[sk]
      IN /\ \A i, j \in 1..Len(listed) : listed[i] = listed[j] => i = j
         /\ \A i \in 1..Len(listed) :
              \E key \in DOMAIN tokens_by_key : tokens_by_key[key].address = listed[i]

\* in this step a resolution exhausts the fallback chain
Exhausts == \E t \in Tasks : ProviderReturn(t) /\ returned'.error = "ResolutionFailed"

\* at most one FailedLookup per (symbol, chain)
OneFailedLookupPerPair ==
    \A r1, r2 \in BagToSet(failed_contract_lookups) :
      /\ CopiesIn(r1, failed_contract_lookups) = 1
      /\ (r1.token_symbol = r2.token_symbol /\ r1.blockchain = r2.blockchain) => r1 = r2

\* C40 as claimed: under any interleaving of concurrent resolutions there is
\* at most one FailedLookup per (symbol, chain), its retry_count equals the
\* number of resolutions of that pair that have exhausted the fallback chain
\* so far, and no operation deletes a FailedLookup: the table starts empty,
\* every exhaustion creates the record with retry_count 1 or increments it by
\* one, and no other step changes the table.
C40_RetryCountCountsExhaustions ==
    [][ IF Exhausts
        THEN FailedLookupRecorded
        ELSE failed_contract_lookups' = failed_contract_lookups
      ]_vars

\* C40 as amended: at most one FailedLookup per (symbol, chain); its
\* retry_count equals the number of exhausted resolutions of that pair whose
\* FailedLookup write succeeded, an exhaustion whose write fails leaving the
\* table as it was; no other step changes the table, so nothing is deleted.
C40_RetryCountCountsRecordedExhaustions ==
    /\ failed_contract_lookups = EmptyBag
    /\ []OneFailedLookupPerPair
    /\ [][ IF Exhausts /\ ~returned'.write_failed
           THEN FailedLookupRecorded
           ELSE failed_contract_lookups' = failed_contract_lookups
         ]_vars

C40_Witness ==
    /\ returned.error = "ResolutionFailed"
    /\ returned.write_failed
    /\ metrics.total_requests = 2
    /\ BagCardinality(failed_contract_lookups) = 1
    /\ \E r \in BagToSet(failed_contract_lookups) :
         /\ r.token_symbol = Upper(returned.token_symbol)
         /\ r.blockchain = Lower(returned.blockchain)
         /\ r.retry_count = 1

====
